---- MODULE Spec2Model ----
(***************************************************************************)
(* Attendance session reconciliation engine of TimeMotoxPersonio.          *)
(*                                                                         *)
(* The model follows the processor that owns the complete In/Out state     *)
(* machine (handleAttendance with markEventOnce / markPunchOnce, double-in *)
(* close, shadow recovery, next-day split), the session store with the     *)
(* session:autoclose sorted set, the anomaly list and the runAutoClose     *)
(* sweep.  Every awaited Redis or Personio call is one atomic step, so     *)
(* handlers and the sweep interleave exactly at the await points.          *)
(*                                                                         *)
(* Time is counted in seconds (the code counts milliseconds; every value   *)
(* it handles here is a whole number of seconds).  Instant 0 is            *)
(* 2026-03-28T00:00:00Z, so that the Europe/Berlin switch from +01:00 to   *)
(* +02:00 (2026-03-29T01:00:00Z) lies inside the modelled days.            *)
(* The wall-clock fields ts / updatedAt of the stored records are left     *)
(* out: nothing reads them.  The 7-day expiry of the evt:, punch: and       *)
(* personio:emp: keys is longer than the modelled days; it appears as one  *)
(* step, ExpireKeys, of the sequential specification.                      *)
(***************************************************************************)
EXTENDS Integers, Sequences, FiniteSets, TLC

VARIABLES
    conc,        \* TRUE: handlers and the sweep may run concurrently
    pool,        \* the webhook bodies the provider may deliver
    SHADOW_MODE, \* env.SHADOW_MODE of the running process
    now,         \* wall clock read by the sweep (Date.now())
    evt,         \* Redis keys evt:<eventId>
    punch,       \* Redis keys punch:<email>:<type>:<stamp>
    open,        \* Redis keys session:open:<email> -> OpenSession
    idx,         \* sorted set session:autoclose, member -> score
    history,     \* list session:history, newest first
    anomalies,   \* list anomalies:list, newest first
    remote,      \* attendance periods held by Personio
    pc,          \* position of each handler invocation
    loc,         \* locals of each handler invocation
    sw,          \* position and locals of the sweep
    prevSweep,   \* the last completed sweep (observer)
    passed,      \* per event id: how often a handler got past the event gate
    budget,      \* remaining deliveries, sweeps, restarts and client failures
    empCache,    \* Redis keys personio:emp:<email> (cached employee ids)
    fnIn,        \* input of the pure-function specifications
    fnOut        \* result of the pure-function specifications

vars == <<conc, pool, SHADOW_MODE, now, evt, punch, open, idx, history,
          anomalies, remote, pc, loc, sw, prevSweep, passed, budget, fnIn, fnOut, empCache>>

-----------------------------------------------------------------------------
(* Bounds of the model *)

MaxDeliveries == 3
MaxSweeps == 2
MaxRestarts == 1
MaxFailures == 1
MaxFnDays == 3
MaxInFlight == 2
MaxExpiries == 1
MaxDueLimit == 2
MaxAppends == 3
MaxListLimit == 3

-----------------------------------------------------------------------------
(* Time: timemoto.ts *)

DaySec == 24 * 3600
TwelveH == 12 * 3600
OneH == 60 * 60

\* the instant at which Europe/Berlin switches to summer time (time zone data
\* behind Intl.DateTimeFormat)
DstStartUtc == DaySec + 3600

BerlinOffsetSec(t) == IF t < DstStartUtc THEN 3600 ELSE 7200

\* Date.UTC(y, mo - 1, d, h, mi, s), the calendar day counted from instant 0
DateUTC(day, sod) == day * DaySec + sod

\* Intl.DateTimeFormat(..., {timeZone}).formatToParts(date)
partsInTimeZone(t) ==
    LET l == t + BerlinOffsetSec(t)
    IN  [day |-> l \div DaySec, sod |-> l % DaySec]

getOffsetMinutes(t) ==
    LET p == partsInTimeZone(t)
        asUtc == DateUTC(p.day, p.sod)
    IN  (asUtc - t) \div 60

zonedLocalToUtcDate(day, sod) ==
    LET base == DateUTC(day, sod)
        g1 == base - getOffsetMinutes(base) * 60
        g2 == base - getOffsetMinutes(g1) * 60
    IN  g2

\* "YYYY-MM-DDTHH:MM:SS+HH:MM": local calendar day, local time of day, offset
toBerlinISO(t) ==
    LET p == partsInTimeZone(t)
    IN  [day |-> p.day, sod |-> p.sod, off |-> getOffsetMinutes(t)]

berlinDayEndUtcMillis(t) ==
    zonedLocalToUtcDate(partsInTimeZone(t).day, 23 * 3600 + 59 * 60)

\* the instant an ISO string with offset denotes (what Personio stores)
InstantOf(iso) == DateUTC(iso.day, iso.sod) - iso.off * 60

\* iso.slice(0, 10)
DayOf(iso) == iso.day

clampAutoClose(utcStart) ==
    LET twelveH == utcStart + TwelveH
        dayEnd == berlinDayEndUtcMillis(utcStart)
    IN  IF twelveH <= dayEnd THEN twelveH ELSE dayEnd

-----------------------------------------------------------------------------
(* Strings of the webhook body: a string is a tuple of characters *)

Null == <<>>

Lower(c) == CASE c = "A" -> "a" [] c = "C" -> "c" [] c = "X" -> "x" [] OTHER -> c

RECURSIVE TrimStart(_)
TrimStart(s) == IF s # <<>> /\ Head(s) = " " THEN TrimStart(Tail(s)) ELSE s

RECURSIVE TrimEnd(_)
TrimEnd(s) ==
    IF s # <<>> /\ s[Len(s)] = " " THEN TrimEnd(SubSeq(s, 1, Len(s) - 1)) ELSE s

Trim(s) == TrimEnd(TrimStart(s))

toLowerCase(s) == [i \in 1..Len(s) |-> Lower(s[i])]

normalizeEmail_noLower(s) ==
    LET e == Trim(s)
    IN  IF \E i \in 1..Len(e) : e[i] = "@" THEN e ELSE Null

\* trim, lower-case, require an "@"; Null for anything else
normalizeEmail(s) ==
    LET e == toLowerCase(Trim(s))
    IN  IF \E i \in 1..Len(e) : e[i] = "@" THEN e ELSE Null

\* the identity is read from data.userEmployeeNumber
extractEmailFromEvent(body) == normalizeEmail(body.user)

\* "In" / "Out", or "" when the body names no recognised clock direction
getClockingType(body) ==
    IF body.clockingType \in {"In", "Out"} THEN body.clockingType ELSE ""

\* the instant of the punch, 0 when the body holds no usable timestamp
extractStampUtcMillis(body) == body.stamp

\* byte order of the characters used (members of a sorted set with equal
\* scores are ordered by their bytes)
CharCode(c) ==
    CASE c = " " -> 32 [] c = "@" -> 64 [] c = "A" -> 65 [] c = "C" -> 67
      [] c = "X" -> 88 [] c = "a" -> 97 [] c = "b" -> 98 [] c = "c" -> 99
      [] c = "x" -> 120 [] OTHER -> 0

RECURSIVE LexLess(_, _)
LexLess(a, b) ==
    IF b = <<>> THEN FALSE
    ELSE IF a = <<>> THEN TRUE
    ELSE IF CharCode(Head(a)) # CharCode(Head(b))
         THEN CharCode(Head(a)) < CharCode(Head(b))
         ELSE LexLess(Tail(a), Tail(b))

-----------------------------------------------------------------------------
(* Redis commands *)

RedisSetNX_ok_any(keys, k) == TRUE

\* SET key value NX: "OK" only when the key does not exist
RedisSetNX_ok(keys, k) == k \notin keys

RedisSet(store, k, v) ==
    [x \in (DOMAIN store) \cup {k} |-> IF x = k THEN v ELSE store[x]]

RedisDel_keep(store, k) == store

RedisDel(store, k) == [x \in (DOMAIN store) \ {k} |-> store[x]]

\* GET: no value, or the value
RedisGet(store, k) == IF k \in DOMAIN store THEN <<store[k]>> ELSE <<>>

ZAdd(z, score, member) == RedisSet(z, member, score)

ZRem_keep(z, member) == z

ZRem(z, member) == RedisDel(z, member)

ZBefore(z, a, b) == z[a] < z[b] \/ (z[a] = z[b] /\ LexLess(a, b))

\* the members in ascending order: the i-th has i - 1 members before it
ZSorted(z, members) ==
    [i \in 1..Cardinality(members) |->
        CHOOSE a \in members :
            Cardinality({b \in members \ {a} : ZBefore(z, b, a)}) = i - 1]

\* ZRANGEBYSCORE z min max without LIMIT
ZRangeByScore_nolimit(z, min, max, count) ==
    ZSorted(z, {m \in DOMAIN z : min <= z[m] /\ z[m] <= max})

\* ZRANGEBYSCORE z min max LIMIT 0 count
ZRangeByScore(z, min, max, count) ==
    LET all == ZSorted(z, {m \in DOMAIN z : min <= z[m] /\ z[m] <= max})
    IN  SubSeq(all, 1, IF Len(all) < count THEN Len(all) ELSE count)

\* LPUSH list item without the LTRIM
LPushTrim_notrim(list, item, cap) == <<item>> \o list

\* LPUSH list item, then LTRIM list 0 cap-1
LPushTrim(list, item, cap) ==
    LET l == <<item>> \o list
    IN  SubSeq(l, 1, IF Len(l) < cap THEN Len(l) ELSE cap)

-----------------------------------------------------------------------------
(* session.ts, anomalies.ts *)

HistoryCap == 2000
AnomalyCap == 500
SweepLimit == 50

getOpenSession(store, email) == RedisGet(store, email)

\* a push that keeps the oldest entries once the list is full
pushHistory_oldest(list, item) ==
    IF Len(list) >= HistoryCap THEN list ELSE <<item>> \o list

pushHistory(list, item) == LPushTrim(list, item, HistoryCap)

recordAnomaly_drop(list, a) == list

recordAnomaly(list, a) == LPushTrim(list, a, AnomalyCap)

listDueAutoClose_none(z, nowUtcMs, limit) == <<>>

listDueAutoClose(z, nowUtcMs, limit) == ZRangeByScore(z, 0, nowUtcMs, limit)

Anomaly(type, email, eventId) == [type |-> type, email |-> email, eventId |-> eventId]

HistoryItem(email, start, end, reason, periodId) ==
    [email |-> email, start |-> start, end |-> end, reason |-> reason,
     periodId |-> periodId]

-----------------------------------------------------------------------------
(* personio.ts: the attendance client and the periods Personio holds *)

ShadowPeriod == "shadow-period"

\* ids Personio hands out, in order of creation
PeriodIds == <<"p1", "p2", "p3", "p4", "p5", "p6", "p7", "p8">>

\* !id || id === "shadow-period" || id.startsWith("shadow"): no id Personio
\* hands out here starts with "shadow"
isShadowPeriodId(id) == id = "" \/ id = ShadowPeriod

\* the people Personio knows
Directory == {<<"a", "@", "x">>, <<"c", "@", "x">>}

\* GET /v1/company/employees?email=...: Personio compares addresses without
\* regard to case; the id of the first hit, Null for no hit
getEmployeeIdByEmail(email) ==
    IF toLowerCase(email) \in Directory THEN <<"emp">> \o toLowerCase(email)
    ELSE Null

PeriodIndex(id) == CHOOSE n \in 1..Len(PeriodIds) : PeriodIds[n] = id

\* a create that anchors the period at the start of the day
createAttendanceOpenEnded_dayStart(rem, employeeId, startISO) ==
    Append(rem, [person |-> employeeId, start |-> [startISO EXCEPT !.sod = 0],
                 end |-> <<>>, patches |-> 0])

\* POST /v2/attendance-periods with a start and no end
createAttendanceOpenEnded(rem, employeeId, startISO) ==
    Append(rem, [person |-> employeeId, start |-> startISO, end |-> <<>>,
                 patches |-> 0])

NewPeriodId(rem) == PeriodIds[Len(rem) + 1]

\* PATCH /v2/attendance-periods/<id> answers 2xx only for a period that exists
PatchAccepted(rem, id) ==
    \E n \in 1..Len(rem) : PeriodIds[n] = id

patchAttendanceEnd(rem, id, endISO) ==
    [rem EXCEPT ![PeriodIndex(id)].end = <<endISO>>,
                ![PeriodIndex(id)].patches = @ + 1]

-----------------------------------------------------------------------------
(* Webhook bodies and the instants they carry *)

Body(id, clockingType, user, stamp) ==
    [id |-> id, clockingType |-> clockingType, user |-> user, stamp |-> stamp]

A_X == <<"a", "@", "x">>
A_X_raw == <<" ", "A", "@", "X">>
B_X == <<"b", "@", "x">>
C_X == <<"c", "@", "x">>
NoAt == <<"a", "x">>

\* Saturday 2026-03-28, Berlin winter time (+01:00)
T0800 == 7 * 3600
T0830 == 7 * 3600 + 1800
T1630 == 15 * 3600 + 1800
T2045 == 19 * 3600 + 45 * 60
T2200 == 21 * 3600
T235930 == 22 * 3600 + 59 * 60 + 30
\* Sunday 2026-03-29: 01:30 winter time, then 22:00 summer time (+02:00)
N0130 == DaySec + 1800
S2200 == DaySec + 20 * 3600
\* Monday 2026-03-30 00:30 summer time
S0030 == DaySec + 22 * 3600 + 1800

SeqPool ==
    { Body("e1", "In", A_X, T0800),
      Body("e2", "Out", A_X_raw, T1630),
      Body("e3", "In", A_X_raw, T0830),
      Body("e4", "In", A_X, T1630),
      Body("e5", "Out", A_X, N0130),
      Body("e6", "In", A_X, S2200),
      Body("e7", "Out", A_X, S0030),
      Body("e8", "In", A_X, T235930),
      Body("e9", "In", A_X, T0800),
      Body("e10", "In", C_X, T0830),
      Body("e11", "In", B_X, T0800),
      Body("", "In", A_X, T0800),
      Body("e12", "", A_X, T0800),
      Body("e13", "In", NoAt, T0800),
      Body("e14", "Out", A_X, 0) }

ConcPool ==
    { Body("e1", "In", A_X, T0800),
      Body("e2", "Out", A_X_raw, T1630),
      Body("e3", "In", A_X_raw, T0830),
      Body("e5", "Out", A_X, N0130),
      Body("", "In", A_X, T0800),
      Body("e13", "In", NoAt, T0800) }

SweepPool ==
    ConcPool \cup { Body("e10", "In", C_X, T0830),
                    Body("e4", "In", A_X, T1630),
                    Body("e15", "Out", A_X, T2045) }

EventIds == {b.id : b \in SeqPool \cup ConcPool \cup SweepPool}

\* instants the wall clock shows when a sweep starts
NowPool == {0, 19 * 3600 + 60, 3 * DaySec}

-----------------------------------------------------------------------------
(* State *)

H == {"h1", "h2"}

EmptyMap == [x \in {} |-> 0]

NullISO == [day |-> 0, sod |-> 0, off |-> 0]

Snapshot ==
    [open |-> open, idx |-> idx, history |-> history, anomalies |-> anomalies,
     remote |-> remote]

NoSnapshot ==
    [open |-> EmptyMap, idx |-> EmptyMap, history |-> <<>>, anomalies |-> <<>>,
     remote |-> <<>>]

IdleLoc ==
    [body |-> Body("", "", Null, 0), eventId |-> "", clockingType |-> "",
     email |-> Null, stampUtc |-> 0, stampBerlinISO |-> NullISO,
     sess |-> <<>>, closeBerlin |-> NullISO, employeeId |-> Null,
     periodId |-> "", ret |-> "", branch |-> "", pre |-> NoSnapshot]

IdleSweep ==
    [pc |-> "idle", now |-> 0, due |-> <<>>, i |-> 1, closed |-> 0,
     sess |-> <<>>, closedIds |-> {}]

NoSweep == [valid |-> FALSE, now |-> 0, closed |-> 0, closedIds |-> {}]

AllIdle == sw.pc = "idle" /\ \A h \in H : pc[h] = "idle"

InFlight ==
    Cardinality({h \in H : pc[h] # "idle"}) + (IF sw.pc = "idle" THEN 0 ELSE 1)

\* a new invocation may start: when running concurrently while fewer than
\* MaxInFlight are running, otherwise only when nothing else is running
MayStart == IF conc THEN InFlight < MaxInFlight ELSE AllIdle

InitStore ==
    /\ now = 0
    /\ evt = {}
    /\ punch = {}
    /\ open = EmptyMap
    /\ idx = EmptyMap
    /\ history = <<>>
    /\ anomalies = <<>>
    /\ remote = <<>>
    /\ pc = [h \in H |-> "idle"]
    /\ loc = [h \in H |-> IdleLoc]
    /\ sw = IdleSweep
    /\ prevSweep = NoSweep
    /\ passed = [e \in EventIds |-> 0]
    /\ budget = [deliveries |-> MaxDeliveries, sweeps |-> MaxSweeps,
                 restarts |-> MaxRestarts, fails |-> MaxFailures,
                 expiries |-> MaxExpiries]
    /\ empCache = {}

InitCommon ==
    /\ InitStore
    /\ SHADOW_MODE \in BOOLEAN
    /\ fnIn = 0
    /\ fnOut = <<>>

Init == InitCommon /\ conc = TRUE /\ pool = ConcPool

InitSeq == InitCommon /\ conc = FALSE /\ pool = SeqPool

InitSweep == InitCommon /\ conc = FALSE /\ pool = SweepPool

Goto(h, label) == pc' = [pc EXCEPT ![h] = label]

Min2(a, b) == IF a <= b THEN a ELSE b

-----------------------------------------------------------------------------
(* processor.ts: handleAttendance, one action per awaited call *)

markEventOnce_always(keys, eventId) == TRUE

\* redis.set("evt:<id>", "1", {NX, EX}) === "OK"
markEventOnce(keys, eventId) == RedisSetNX_ok(keys, eventId)

\* redis.set("punch:<email>:<type>:<stamp>", "1", {NX, EX}) === "OK"
\* a punch mark that lets every event through
markPunchOnce_always(keys, email, clockingType, stampUtc) == TRUE

markPunchOnce(keys, email, clockingType, stampUtc) ==
    RedisSetNX_ok(keys, <<email, clockingType, stampUtc>>)

doubleInCloseUtc_plus1h(startUtcMs, stampUtc) == startUtcMs + OneH

\* close the previous session at min(prevStart + 1h, new In)
doubleInCloseUtc(startUtcMs, stampUtc) == Min2(startUtcMs + OneH, stampUtc)

\* day 1 of a split ends at min(autoClose, end of the start's local day)
splitFirstEndUtc(sess) ==
    Min2(sess.autoCloseAtUtcMs, berlinDayEndUtcMillis(sess.startUtcMs))

\* `${outDay}T00:00:00+01:00`
midnightBerlin(outDay) == [day |-> outDay, sod |-> 0, off |-> 60]

\* an In that keeps the session already stored for the identity
NewSession_stale(l) ==
    IF l.sess # <<>> THEN l.sess[1]
    ELSE [email |-> l.email, startUtcMs |-> l.stampUtc,
          startBerlinISO |-> l.stampBerlinISO,
          autoCloseAtUtcMs |-> clampAutoClose(l.stampUtc),
          personioPeriodId |-> l.periodId, openedEventId |-> l.eventId]

NewSession(l) ==
    [email |-> l.email, startUtcMs |-> l.stampUtc,
     startBerlinISO |-> l.stampBerlinISO,
     autoCloseAtUtcMs |-> clampAutoClose(l.stampUtc),
     personioPeriodId |-> l.periodId, openedEventId |-> l.eventId]

\* the webhook route hands a body to handleAttendance
Deliver(h, body) ==
    /\ pc[h] = "idle"
    /\ MayStart
    /\ h = "h2" => conc /\ pc["h1"] # "idle"
    /\ budget.deliveries > 0
    /\ body \in pool
    /\ Goto(h, "gate")
    /\ loc' = [loc EXCEPT ![h] = [IdleLoc EXCEPT !.body = body,
                                                  !.eventId = body.id,
                                                  !.pre = IF conc THEN NoSnapshot
                                                         ELSE Snapshot]]
    /\ budget' = [budget EXCEPT !.deliveries = @ - 1]
    /\ prevSweep' = [prevSweep EXCEPT !.valid = FALSE]
    /\ UNCHANGED <<conc, pool, SHADOW_MODE, now, evt, punch, open, idx, history,
                   anomalies, remote, sw, passed, fnIn, fnOut, empCache>>

EventIdMissing(h) ==
    /\ pc[h] = "gate"
    /\ loc[h].eventId = ""
    /\ anomalies' = recordAnomaly(anomalies, Anomaly("EVENT_ID_MISSING", Null, ""))
    /\ loc' = [loc EXCEPT ![h].branch = "event_id_missing"]
    /\ Goto(h, "done")
    /\ UNCHANGED <<conc, pool, SHADOW_MODE, now, evt, punch, open, idx, history,
                   remote, sw, prevSweep, passed, budget, fnIn, fnOut, empCache>>

MarkEventOnce(h) ==
    /\ pc[h] = "gate"
    /\ loc[h].eventId # ""
    /\ LET first == markEventOnce(evt, loc[h].eventId)
       IN  /\ evt' = evt \cup {loc[h].eventId}
           /\ passed' = IF first THEN [passed EXCEPT ![loc[h].eventId] = @ + 1]
                        ELSE passed
           /\ loc' = [loc EXCEPT ![h].branch =
                          IF first THEN "" ELSE "duplicate_event_id"]
           /\ Goto(h, IF first THEN "validate" ELSE "done")
    /\ UNCHANGED <<conc, pool, SHADOW_MODE, now, punch, open, idx, history,
                   anomalies, remote, sw, prevSweep, budget, fnIn, fnOut, empCache>>

\* the first validation that fails names the anomaly
ValidationFailure(body) ==
    IF getClockingType(body) = "" THEN "CLOCKING_TYPE_MISSING"
    ELSE IF extractEmailFromEvent(body) = Null THEN "EMAIL_MISSING"
    ELSE IF extractStampUtcMillis(body) = 0 THEN "STAMP_TIME_MISSING"
    ELSE ""

ValidationAnomaly(h) ==
    /\ pc[h] = "validate"
    /\ ValidationFailure(loc[h].body) # ""
    /\ LET type == ValidationFailure(loc[h].body)
           email == IF type = "STAMP_TIME_MISSING"
                    THEN extractEmailFromEvent(loc[h].body) ELSE Null
       IN  /\ anomalies' = recordAnomaly(anomalies,
                               Anomaly(type, email, loc[h].eventId))
           /\ loc' = [loc EXCEPT ![h].branch = type]
    /\ Goto(h, "done")
    /\ UNCHANGED <<conc, pool, SHADOW_MODE, now, evt, punch, open, idx, history,
                   remote, sw, prevSweep, passed, budget, fnIn, fnOut, empCache>>

MarkPunchOnce(h) ==
    /\ pc[h] = "validate"
    /\ ValidationFailure(loc[h].body) = ""
    /\ LET ct == getClockingType(loc[h].body)
           email == extractEmailFromEvent(loc[h].body)
           stamp == extractStampUtcMillis(loc[h].body)
           first == markPunchOnce(punch, email, ct, stamp)
       IN  /\ punch' = punch \cup {<<email, ct, stamp>>}
           /\ loc' = [loc EXCEPT ![h].clockingType = ct,
                                 ![h].email = email,
                                 ![h].stampUtc = stamp,
                                 ![h].stampBerlinISO = toBerlinISO(stamp),
                                 ![h].branch =
                                     IF first THEN "" ELSE "duplicate_punch"]
           /\ Goto(h, IF ~first THEN "done"
                      ELSE IF ct = "In" THEN "in_get" ELSE "out_get")
    /\ UNCHANGED <<conc, pool, SHADOW_MODE, now, evt, open, idx, history,
                   anomalies, remote, sw, prevSweep, passed, budget, fnIn, fnOut, empCache>>

(* IN *)

InGetOpen(h) ==
    /\ pc[h] = "in_get"
    /\ LET existing == getOpenSession(open, loc[h].email)
       IN  /\ loc' = [loc EXCEPT ![h].sess = existing]
           /\ Goto(h, IF existing # <<>> THEN "dbl_anomaly" ELSE "in_resolve")
    /\ UNCHANGED <<conc, pool, SHADOW_MODE, now, evt, punch, open, idx, history,
                   anomalies, remote, sw, prevSweep, passed, budget, fnIn, fnOut, empCache>>

DoubleInAnomaly(h) ==
    /\ pc[h] = "dbl_anomaly"
    /\ LET existing == loc[h].sess[1]
           closeUtc == doubleInCloseUtc(existing.startUtcMs, loc[h].stampUtc)
       IN  loc' = [loc EXCEPT ![h].closeBerlin = toBerlinISO(closeUtc),
                              ![h].branch = "double_in"]
    /\ anomalies' = recordAnomaly(anomalies,
                        Anomaly("DOUBLE_IN", loc[h].email, loc[h].eventId))
    /\ Goto(h, IF ~SHADOW_MODE THEN "dbl_patch" ELSE "dbl_history")
    /\ UNCHANGED <<conc, pool, SHADOW_MODE, now, evt, punch, open, idx, history,
                   remote, sw, prevSweep, passed, budget, fnIn, fnOut, empCache>>

DoubleInPatch(h) ==
    /\ pc[h] = "dbl_patch"
    /\ ~isShadowPeriodId(loc[h].sess[1].personioPeriodId)
    /\ IF PatchAccepted(remote, loc[h].sess[1].personioPeriodId)
       THEN /\ remote' = patchAttendanceEnd(remote,
                             loc[h].sess[1].personioPeriodId, loc[h].closeBerlin)
            /\ Goto(h, "dbl_history")
       ELSE /\ remote' = remote
            /\ Goto(h, "failed")
    /\ UNCHANGED <<conc, pool, SHADOW_MODE, now, evt, punch, open, idx, history,
                   anomalies, loc, sw, prevSweep, passed, budget, fnIn, fnOut, empCache>>

DoubleInDropped(h) ==
    /\ pc[h] = "dbl_patch"
    /\ isShadowPeriodId(loc[h].sess[1].personioPeriodId)
    /\ anomalies' = recordAnomaly(anomalies,
                        Anomaly("SHADOW_SESSION_DROPPED_ON_DOUBLE_IN",
                                loc[h].email, loc[h].eventId))
    /\ Goto(h, "dbl_history")
    /\ UNCHANGED <<conc, pool, SHADOW_MODE, now, evt, punch, open, idx, history,
                   remote, loc, sw, prevSweep, passed, budget, fnIn, fnOut, empCache>>

DoubleInHistory(h) ==
    /\ pc[h] = "dbl_history"
    /\ LET existing == loc[h].sess[1]
       IN  history' = pushHistory(history,
                          HistoryItem(loc[h].email, existing.startBerlinISO,
                                      loc[h].closeBerlin, "DOUBLE_IN_CLOSE",
                                      existing.personioPeriodId))
    /\ loc' = [loc EXCEPT ![h].ret = "in_resolve"]
    /\ Goto(h, "clear_del")
    /\ UNCHANGED <<conc, pool, SHADOW_MODE, now, evt, punch, open, idx,
                   anomalies, remote, sw, prevSweep, passed, budget, fnIn, fnOut, empCache>>

\* clearOpenSession: redis.del(session:open:<email>) ...
\* a clear that leaves the session of a next-day split in place
ClearOpenDel_splitKeeps(h) ==
    /\ pc[h] = "clear_del"
    /\ open' = IF loc[h].branch = "split" THEN open
               ELSE RedisDel(open, loc[h].email)
    /\ Goto(h, "clear_zrem")
    /\ UNCHANGED <<conc, pool, SHADOW_MODE, now, evt, punch, idx, history,
                   anomalies, remote, loc, sw, prevSweep, passed, budget,
                   fnIn, fnOut, empCache>>

ClearOpenDel(h) ==
    /\ pc[h] = "clear_del"
    /\ open' = RedisDel(open, loc[h].email)
    /\ Goto(h, "clear_zrem")
    /\ UNCHANGED <<conc, pool, SHADOW_MODE, now, evt, punch, idx, history,
                   anomalies, remote, loc, sw, prevSweep, passed, budget,
                   fnIn, fnOut, empCache>>

\* ... then redis.zRem(session:autoclose, email)
ClearOpenZRem(h) ==
    /\ pc[h] = "clear_zrem"
    /\ idx' = ZRem(idx, loc[h].email)
    /\ Goto(h, loc[h].ret)
    /\ UNCHANGED <<conc, pool, SHADOW_MODE, now, evt, punch, open, history,
                   anomalies, remote, loc, sw, prevSweep, passed, budget,
                   fnIn, fnOut, empCache>>

\* getEmployeeIdByEmail reads personio:emp:<email> first; without the key it
\* asks the employees endpoint, whose answer may be not ok
LookupAnswers(email) ==
    IF email \in empCache \/ budget.fails = 0 THEN {TRUE} ELSE {TRUE, FALSE}

\* if (cached) return cached; if (!r.ok) return null; otherwise the id found
lookupEmployeeId(email, ok) ==
    IF email \in empCache \/ ok THEN getEmployeeIdByEmail(email) ELSE Null

\* redis.set(cacheKey, id, { EX: 7 * 24 * 3600 }) after an answer with an id
LookupDone(email, ok) ==
    /\ empCache' = IF lookupEmployeeId(email, ok) # Null
                   THEN empCache \cup {email} ELSE empCache
    /\ budget' = IF ok THEN budget ELSE [budget EXCEPT !.fails = @ - 1]

InResolve(h) ==
    /\ pc[h] = "in_resolve"
    /\ \E ok \in LookupAnswers(loc[h].email) :
         LET employeeId == lookupEmployeeId(loc[h].email, ok)
         IN  /\ LookupDone(loc[h].email, ok)
             /\ IF employeeId = Null
                THEN /\ anomalies' = recordAnomaly(anomalies,
                                         Anomaly("PERSONIO_EMPLOYEE_NOT_FOUND",
                                                 loc[h].email, loc[h].eventId))
                     /\ loc' = [loc EXCEPT ![h].branch =
                                    IF @ = "" THEN "employee_not_found" ELSE @]
                     /\ Goto(h, "done")
                ELSE /\ anomalies' = anomalies
                     /\ loc' = [loc EXCEPT ![h].employeeId = employeeId,
                                           ![h].periodId = ShadowPeriod]
                     /\ Goto(h, IF ~SHADOW_MODE THEN "in_create" ELSE "set_set")
    /\ UNCHANGED <<conc, pool, SHADOW_MODE, now, evt, punch, open, idx, history,
                   remote, sw, prevSweep, passed, fnIn, fnOut>>

InCreate(h) ==
    /\ pc[h] = "in_create"
    /\ remote' = createAttendanceOpenEnded(remote, loc[h].employeeId,
                                           loc[h].stampBerlinISO)
    /\ loc' = [loc EXCEPT ![h].periodId = NewPeriodId(remote)]
    /\ Goto(h, "set_set")
    /\ UNCHANGED <<conc, pool, SHADOW_MODE, now, evt, punch, open, idx, history,
                   anomalies, sw, prevSweep, passed, budget, fnIn, fnOut, empCache>>

\* setOpenSession: redis.set(session:open:<email>, JSON) ...
SetOpenSet(h) ==
    /\ pc[h] = "set_set"
    /\ open' = RedisSet(open, loc[h].email, NewSession(loc[h]))
    /\ Goto(h, "set_zadd")
    /\ UNCHANGED <<conc, pool, SHADOW_MODE, now, evt, punch, idx, history,
                   anomalies, remote, loc, sw, prevSweep, passed, budget,
                   fnIn, fnOut, empCache>>

\* ... then redis.zAdd(session:autoclose, {score, value})
SetOpenZAdd(h) ==
    /\ pc[h] = "set_zadd"
    /\ idx' = ZAdd(idx, NewSession(loc[h]).autoCloseAtUtcMs, loc[h].email)
    /\ loc' = [loc EXCEPT ![h].branch = IF @ = "" THEN "in_opened" ELSE @]
    /\ Goto(h, "done")
    /\ UNCHANGED <<conc, pool, SHADOW_MODE, now, evt, punch, open, history,
                   anomalies, remote, sw, prevSweep, passed, budget, fnIn, fnOut, empCache>>

(* OUT *)

OutGetOpen(h) ==
    /\ pc[h] = "out_get"
    /\ LET o == getOpenSession(open, loc[h].email)
           next ==
               IF o = <<>> THEN "out_noin"
               ELSE IF ~SHADOW_MODE /\ isShadowPeriodId(o[1].personioPeriodId)
                    THEN "rec_anomaly"
               ELSE IF DayOf(loc[h].stampBerlinISO) # DayOf(o[1].startBerlinISO)
                    THEN (IF ~SHADOW_MODE THEN "split_patch" ELSE "split_history")
               ELSE (IF ~SHADOW_MODE THEN "sd_patch" ELSE "sd_history")
           branch ==
               IF o = <<>> THEN "out_without_in"
               ELSE IF next = "rec_anomaly" THEN "recover"
               ELSE IF next \in {"split_patch", "split_history"} THEN "split"
               ELSE "same_day_out"
       IN  /\ loc' = [loc EXCEPT ![h].sess = o, ![h].branch = branch]
           /\ Goto(h, next)
    /\ UNCHANGED <<conc, pool, SHADOW_MODE, now, evt, punch, open, idx, history,
                   anomalies, remote, sw, prevSweep, passed, budget, fnIn, fnOut, empCache>>

OutWithoutIn(h) ==
    /\ pc[h] = "out_noin"
    /\ anomalies' = recordAnomaly(anomalies,
                        Anomaly("OUT_WITHOUT_IN", loc[h].email, loc[h].eventId))
    /\ Goto(h, "done")
    /\ UNCHANGED <<conc, pool, SHADOW_MODE, now, evt, punch, open, idx, history,
                   remote, loc, sw, prevSweep, passed, budget, fnIn, fnOut, empCache>>

(* OUT for a session opened in shadow mode, now running live *)

\* a recovery that records its anomaly and falls through to the ordinary
\* Out branches
RecoverAnomaly_fallsThrough(h) ==
    /\ pc[h] = "rec_anomaly"
    /\ anomalies' = recordAnomaly(anomalies,
                        Anomaly("SHADOW_PERIOD_RECOVER", loc[h].email,
                                loc[h].eventId))
    /\ Goto(h, IF DayOf(loc[h].stampBerlinISO)
                      # DayOf(loc[h].sess[1].startBerlinISO)
               THEN "split_patch" ELSE "sd_patch")
    /\ UNCHANGED <<conc, pool, SHADOW_MODE, now, evt, punch, open, idx, history,
                   remote, loc, sw, prevSweep, passed, budget, fnIn, fnOut, empCache>>

RecoverAnomaly(h) ==
    /\ pc[h] = "rec_anomaly"
    /\ anomalies' = recordAnomaly(anomalies,
                        Anomaly("SHADOW_PERIOD_RECOVER", loc[h].email,
                                loc[h].eventId))
    /\ Goto(h, "rec_resolve")
    /\ UNCHANGED <<conc, pool, SHADOW_MODE, now, evt, punch, open, idx, history,
                   remote, loc, sw, prevSweep, passed, budget, fnIn, fnOut, empCache>>

RecoverResolve(h) ==
    /\ pc[h] = "rec_resolve"
    /\ \E ok \in LookupAnswers(loc[h].email) :
         LET employeeId == lookupEmployeeId(loc[h].email, ok)
         IN  /\ LookupDone(loc[h].email, ok)
             /\ IF employeeId = Null
                THEN /\ anomalies' = recordAnomaly(anomalies,
                                         Anomaly("PERSONIO_EMPLOYEE_NOT_FOUND",
                                                 loc[h].email, loc[h].eventId))
                     /\ loc' = [loc EXCEPT ![h].ret = "done"]
                     /\ Goto(h, "clear_del")
                ELSE /\ anomalies' = anomalies
                     /\ loc' = [loc EXCEPT ![h].employeeId = employeeId]
                     /\ Goto(h, "rec_create")
    /\ UNCHANGED <<conc, pool, SHADOW_MODE, now, evt, punch, open, idx, history,
                   remote, sw, prevSweep, passed, fnIn, fnOut>>

RecoverCreate(h) ==
    /\ pc[h] = "rec_create"
    /\ remote' = createAttendanceOpenEnded(remote, loc[h].employeeId,
                                           loc[h].sess[1].startBerlinISO)
    /\ loc' = [loc EXCEPT ![h].periodId = NewPeriodId(remote)]
    /\ Goto(h, "rec_patch")
    /\ UNCHANGED <<conc, pool, SHADOW_MODE, now, evt, punch, open, idx, history,
                   anomalies, sw, prevSweep, passed, budget, fnIn, fnOut, empCache>>

RecoverPatch(h) ==
    /\ pc[h] = "rec_patch"
    /\ remote' = patchAttendanceEnd(remote, loc[h].periodId,
                                    loc[h].stampBerlinISO)
    /\ Goto(h, "rec_history")
    /\ UNCHANGED <<conc, pool, SHADOW_MODE, now, evt, punch, open, idx, history,
                   anomalies, loc, sw, prevSweep, passed, budget, fnIn, fnOut, empCache>>

RecoverHistory(h) ==
    /\ pc[h] = "rec_history"
    /\ history' = pushHistory(history,
                      HistoryItem(loc[h].email, loc[h].sess[1].startBerlinISO,
                                  loc[h].stampBerlinISO, "RECOVER_FROM_SHADOW",
                                  loc[h].periodId))
    /\ loc' = [loc EXCEPT ![h].ret = "done"]
    /\ Goto(h, "clear_del")
    /\ UNCHANGED <<conc, pool, SHADOW_MODE, now, evt, punch, open, idx,
                   anomalies, remote, sw, prevSweep, passed, budget, fnIn, fnOut, empCache>>

(* OUT on a later local day than the start: split *)

SplitPatch(h) ==
    /\ pc[h] = "split_patch"
    /\ LET o == loc[h].sess[1]
           firstEndBerlin == toBerlinISO(splitFirstEndUtc(o))
       IN  IF isShadowPeriodId(o.personioPeriodId)
           THEN /\ remote' = remote
                /\ Goto(h, "split_history")
           ELSE IF PatchAccepted(remote, o.personioPeriodId)
           THEN /\ remote' = patchAttendanceEnd(remote, o.personioPeriodId,
                                                firstEndBerlin)
                /\ Goto(h, "split_history")
           ELSE /\ remote' = remote
                /\ Goto(h, "failed")
    /\ UNCHANGED <<conc, pool, SHADOW_MODE, now, evt, punch, open, idx, history,
                   anomalies, loc, sw, prevSweep, passed, budget, fnIn, fnOut, empCache>>

SplitHistory(h) ==
    /\ pc[h] = "split_history"
    /\ LET o == loc[h].sess[1]
       IN  history' = pushHistory(history,
                          HistoryItem(loc[h].email, o.startBerlinISO,
                                      toBerlinISO(splitFirstEndUtc(o)),
                                      "OUT_NEXT_DAY_SPLIT_DAY1",
                                      o.personioPeriodId))
    /\ loc' = [loc EXCEPT ![h].ret = "split_anomaly"]
    /\ Goto(h, "clear_del")
    /\ UNCHANGED <<conc, pool, SHADOW_MODE, now, evt, punch, open, idx,
                   anomalies, remote, sw, prevSweep, passed, budget, fnIn, fnOut, empCache>>

SplitAnomaly(h) ==
    /\ pc[h] = "split_anomaly"
    /\ anomalies' = recordAnomaly(anomalies,
                        Anomaly("OUT_NEXT_DAY_SPLIT", loc[h].email,
                                loc[h].eventId))
    /\ Goto(h, "split_resolve")
    /\ UNCHANGED <<conc, pool, SHADOW_MODE, now, evt, punch, open, idx, history,
                   remote, loc, sw, prevSweep, passed, budget, fnIn, fnOut, empCache>>

\* day 2 is created only in live mode and only for a known employee
SplitResolve(h) ==
    /\ pc[h] = "split_resolve"
    /\ \E ok \in LookupAnswers(loc[h].email) :
         LET employeeId == lookupEmployeeId(loc[h].email, ok)
         IN  /\ LookupDone(loc[h].email, ok)
             /\ loc' = [loc EXCEPT ![h].employeeId = employeeId]
             /\ Goto(h, IF employeeId = Null \/ SHADOW_MODE THEN "done"
                        ELSE "split2_create")
    /\ UNCHANGED <<conc, pool, SHADOW_MODE, now, evt, punch, open, idx, history,
                   anomalies, remote, sw, prevSweep, passed, fnIn, fnOut>>

Split2Create(h) ==
    /\ pc[h] = "split2_create"
    /\ remote' = createAttendanceOpenEnded(remote, loc[h].employeeId,
                     midnightBerlin(DayOf(loc[h].stampBerlinISO)))
    /\ loc' = [loc EXCEPT ![h].periodId = NewPeriodId(remote)]
    /\ Goto(h, "split2_patch")
    /\ UNCHANGED <<conc, pool, SHADOW_MODE, now, evt, punch, open, idx, history,
                   anomalies, sw, prevSweep, passed, budget, fnIn, fnOut, empCache>>

Split2Patch(h) ==
    /\ pc[h] = "split2_patch"
    /\ remote' = patchAttendanceEnd(remote, loc[h].periodId,
                                    loc[h].stampBerlinISO)
    /\ Goto(h, "split2_history")
    /\ UNCHANGED <<conc, pool, SHADOW_MODE, now, evt, punch, open, idx, history,
                   anomalies, loc, sw, prevSweep, passed, budget, fnIn, fnOut, empCache>>

Split2History(h) ==
    /\ pc[h] = "split2_history"
    /\ history' = pushHistory(history,
                      HistoryItem(loc[h].email,
                                  midnightBerlin(DayOf(loc[h].stampBerlinISO)),
                                  loc[h].stampBerlinISO,
                                  "OUT_NEXT_DAY_SPLIT_DAY2", loc[h].periodId))
    /\ Goto(h, "done")
    /\ UNCHANGED <<conc, pool, SHADOW_MODE, now, evt, punch, open, idx,
                   anomalies, remote, loc, sw, prevSweep, passed, budget,
                   fnIn, fnOut, empCache>>

(* OUT on the local day of the start *)

SameDayPatch(h) ==
    /\ pc[h] = "sd_patch"
    /\ LET o == loc[h].sess[1]
       IN  IF isShadowPeriodId(o.personioPeriodId)
           THEN /\ anomalies' = recordAnomaly(anomalies,
                                    Anomaly("SHADOW_PERIOD_CANNOT_PATCH",
                                            loc[h].email, loc[h].eventId))
                /\ remote' = remote
                /\ Goto(h, "sd_history")
           ELSE IF PatchAccepted(remote, o.personioPeriodId)
           THEN /\ remote' = patchAttendanceEnd(remote, o.personioPeriodId,
                                                loc[h].stampBerlinISO)
                /\ anomalies' = anomalies
                /\ Goto(h, "sd_history")
           ELSE /\ remote' = remote
                /\ anomalies' = anomalies
                /\ Goto(h, "failed")
    /\ UNCHANGED <<conc, pool, SHADOW_MODE, now, evt, punch, open, idx, history,
                   loc, sw, prevSweep, passed, budget, fnIn, fnOut, empCache>>

SameDayHistory(h) ==
    /\ pc[h] = "sd_history"
    /\ LET o == loc[h].sess[1]
       IN  history' = pushHistory(history,
                          HistoryItem(loc[h].email, o.startBerlinISO,
                                      loc[h].stampBerlinISO, "OUT",
                                      o.personioPeriodId))
    /\ loc' = [loc EXCEPT ![h].ret = "done"]
    /\ Goto(h, "clear_del")
    /\ UNCHANGED <<conc, pool, SHADOW_MODE, now, evt, punch, open, idx,
                   anomalies, remote, sw, prevSweep, passed, budget, fnIn, fnOut, empCache>>

\* a create or patch call to Personio throws (after its own retries)
ClientCallLabels ==
    {"dbl_patch", "in_create", "rec_create", "rec_patch", "split_patch",
     "split2_create", "split2_patch", "sd_patch"}

\* a handler that logs the thrown error and returns normally
ClientFails_swallowed(h) ==
    /\ pc[h] \in ClientCallLabels
    /\ pc[h] = "dbl_patch" => ~isShadowPeriodId(loc[h].sess[1].personioPeriodId)
    /\ budget.fails > 0
    /\ budget' = [budget EXCEPT !.fails = @ - 1]
    /\ Goto(h, "done")
    /\ UNCHANGED <<conc, pool, SHADOW_MODE, now, evt, punch, open, idx, history,
                   anomalies, remote, loc, sw, prevSweep, passed, fnIn, fnOut, empCache>>

ClientFails(h) ==
    /\ pc[h] \in ClientCallLabels
    /\ pc[h] = "dbl_patch" => ~isShadowPeriodId(loc[h].sess[1].personioPeriodId)
    /\ budget.fails > 0
    /\ budget' = [budget EXCEPT !.fails = @ - 1]
    /\ Goto(h, "failed")
    /\ UNCHANGED <<conc, pool, SHADOW_MODE, now, evt, punch, open, idx, history,
                   anomalies, remote, loc, sw, prevSweep, passed, fnIn, fnOut, empCache>>

\* handleAttendance returned ("done") or threw ("failed"); the route answers
Return(h) ==
    /\ pc[h] \in {"done", "failed"}
    /\ Goto(h, "idle")
    /\ loc' = [loc EXCEPT ![h] = IdleLoc]
    /\ UNCHANGED <<conc, pool, SHADOW_MODE, now, evt, punch, open, idx, history,
                   anomalies, remote, sw, prevSweep, passed, budget, fnIn, fnOut, empCache>>

-----------------------------------------------------------------------------
(* autoclose.ts: runAutoClose *)

SwVars == <<conc, pool, SHADOW_MODE, now, evt, punch, pc, loc, passed, fnIn, fnOut, empCache>>

\* a pass that gives up after the identity at hand
SweepNext_stop == [sw EXCEPT !.pc = "loop", !.i = Len(sw.due) + 1, !.sess = <<>>]

SweepNext == [sw EXCEPT !.pc = "loop", !.i = @ + 1, !.sess = <<>>]

\* const now = Date.now(); const dueEmails = await listDueAutoClose(redis, now, 50)
SweepStart(t) ==
    /\ sw.pc = "idle"
    /\ MayStart
    /\ budget.sweeps > 0
    /\ t \in NowPool
    /\ t >= now
    /\ now' = t
    /\ budget' = [budget EXCEPT !.sweeps = @ - 1]
    /\ sw' = [IdleSweep EXCEPT !.pc = "loop", !.now = t,
                               !.due = listDueAutoClose(idx, t, SweepLimit)]
    /\ prevSweep' = [prevSweep EXCEPT !.valid = @ /\ t = prevSweep.now]
    /\ UNCHANGED <<open, idx, history, anomalies, remote>>
    /\ UNCHANGED <<conc, pool, SHADOW_MODE, evt, punch, pc, loc, passed, fnIn, fnOut, empCache>>

SweepGet ==
    /\ sw.pc = "loop"
    /\ sw.i <= Len(sw.due)
    /\ LET o == getOpenSession(open, sw.due[sw.i])
       IN  sw' = [sw EXCEPT !.sess = o,
                            !.pc = IF o = <<>> THEN "orphan_del"
                                   ELSE IF ~SHADOW_MODE THEN "patch"
                                   ELSE "history"]
    /\ UNCHANGED <<open, idx, history, anomalies, remote, prevSweep, budget>>
    /\ UNCHANGED SwVars

\* no session behind the index entry: clearOpenSession and continue
SweepOrphanDel ==
    /\ sw.pc = "orphan_del"
    /\ open' = RedisDel(open, sw.due[sw.i])
    /\ sw' = [sw EXCEPT !.pc = "orphan_zrem"]
    /\ UNCHANGED <<idx, history, anomalies, remote, prevSweep, budget>>
    /\ UNCHANGED SwVars

SweepOrphanZRem ==
    /\ sw.pc = "orphan_zrem"
    /\ idx' = ZRem(idx, sw.due[sw.i])
    /\ sw' = SweepNext
    /\ UNCHANGED <<open, history, anomalies, remote, prevSweep, budget>>
    /\ UNCHANGED SwVars

\* close at the stored autoCloseAtUtcMs
SweepPatch ==
    /\ sw.pc = "patch"
    /\ LET o == sw.sess[1]
       IN  IF PatchAccepted(remote, o.personioPeriodId)
           THEN /\ remote' = patchAttendanceEnd(remote, o.personioPeriodId,
                                 toBerlinISO(o.autoCloseAtUtcMs))
                /\ sw' = [sw EXCEPT !.pc = "history"]
           ELSE /\ remote' = remote
                /\ sw' = [sw EXCEPT !.pc = "catch"]
    /\ UNCHANGED <<open, idx, history, anomalies, prevSweep, budget>>
    /\ UNCHANGED SwVars

SweepPatchFails ==
    /\ sw.pc = "patch"
    /\ budget.fails > 0
    /\ budget' = [budget EXCEPT !.fails = @ - 1]
    /\ sw' = [sw EXCEPT !.pc = "catch"]
    /\ UNCHANGED <<open, idx, history, anomalies, remote, prevSweep>>
    /\ UNCHANGED SwVars

SweepHistory ==
    /\ sw.pc = "history"
    /\ LET o == sw.sess[1]
       IN  history' = pushHistory(history,
                          HistoryItem(sw.due[sw.i], o.startBerlinISO,
                                      toBerlinISO(o.autoCloseAtUtcMs),
                                      "AUTO_CLOSE", o.personioPeriodId))
    /\ sw' = [sw EXCEPT !.pc = "clear_del"]
    /\ UNCHANGED <<open, idx, anomalies, remote, prevSweep, budget>>
    /\ UNCHANGED SwVars

SweepClearDel ==
    /\ sw.pc = "clear_del"
    /\ open' = RedisDel(open, sw.due[sw.i])
    /\ sw' = [sw EXCEPT !.pc = "clear_zrem"]
    /\ UNCHANGED <<idx, history, anomalies, remote, prevSweep, budget>>
    /\ UNCHANGED SwVars

SweepClearZRem ==
    /\ sw.pc = "clear_zrem"
    /\ idx' = ZRem(idx, sw.due[sw.i])
    /\ sw' = [SweepNext EXCEPT !.closed = @ + 1,
                               !.closedIds = @ \cup {sw.due[sw.i]}]
    /\ UNCHANGED <<open, history, anomalies, remote, prevSweep, budget>>
    /\ UNCHANGED SwVars

\* a catch that also drops the session whose patch failed
SweepCatch_clears ==
    /\ sw.pc = "catch"
    /\ anomalies' = recordAnomaly(anomalies,
                        Anomaly("AUTO_CLOSE_FAILED", sw.due[sw.i], ""))
    /\ open' = RedisDel(open, sw.due[sw.i])
    /\ idx' = ZRem(idx, sw.due[sw.i])
    /\ sw' = SweepNext
    /\ UNCHANGED <<history, remote, prevSweep, budget>>
    /\ UNCHANGED SwVars

SweepCatch ==
    /\ sw.pc = "catch"
    /\ anomalies' = recordAnomaly(anomalies,
                        Anomaly("AUTO_CLOSE_FAILED", sw.due[sw.i], ""))
    /\ sw' = SweepNext
    /\ UNCHANGED <<open, idx, history, remote, prevSweep, budget>>
    /\ UNCHANGED SwVars

\* return { closed }
SweepReturn ==
    /\ sw.pc = "loop"
    /\ sw.i > Len(sw.due)
    /\ sw' = [sw EXCEPT !.pc = "done"]
    /\ UNCHANGED <<open, idx, history, anomalies, remote, prevSweep, budget>>
    /\ UNCHANGED SwVars

SweepFinish ==
    /\ sw.pc = "done"
    /\ prevSweep' = [valid |-> TRUE, now |-> sw.now, closed |-> sw.closed,
                     closedIds |-> sw.closedIds]
    /\ sw' = IdleSweep
    /\ UNCHANGED <<open, idx, history, anomalies, remote, budget>>
    /\ UNCHANGED SwVars

-----------------------------------------------------------------------------
(* Environment *)

\* the service is restarted with the other SHADOW_MODE setting
Restart ==
    /\ AllIdle
    /\ budget.restarts > 0
    /\ budget' = [budget EXCEPT !.restarts = @ - 1]
    /\ SHADOW_MODE' = ~SHADOW_MODE
    /\ prevSweep' = [prevSweep EXCEPT !.valid = FALSE]
    /\ UNCHANGED <<conc, pool, now, evt, punch, open, idx, history, anomalies,
                   remote, pc, loc, sw, passed, fnIn, fnOut, empCache>>

\* seven days without traffic: every key written with EX 7 * 24 * 3600
\* (evt:, punch:, personio:emp:) is gone; session:open, session:autoclose,
\* session:history and anomalies:list carry no expiry
ExpireKeys ==
    /\ AllIdle
    /\ sw.pc = "idle"
    /\ budget.expiries > 0
    /\ budget' = [budget EXCEPT !.expiries = @ - 1]
    /\ evt' = {}
    /\ punch' = {}
    /\ empCache' = {}
    /\ UNCHANGED <<conc, pool, SHADOW_MODE, now, open, idx, history, anomalies,
                   remote, pc, loc, sw, prevSweep, passed, fnIn, fnOut>>

\* the steps of handleAttendance while SHADOW_MODE keeps the value the
\* sessions were opened under and Personio answers
HandlerCoreStep(h) ==
    \/ \E body \in pool : Deliver(h, body)
    \/ EventIdMissing(h)
    \/ MarkEventOnce(h)
    \/ ValidationAnomaly(h)
    \/ MarkPunchOnce(h)
    \/ InGetOpen(h)
    \/ DoubleInAnomaly(h)
    \/ DoubleInPatch(h)
    \/ DoubleInHistory(h)
    \/ ClearOpenDel(h)
    \/ ClearOpenZRem(h)
    \/ InResolve(h)
    \/ InCreate(h)
    \/ SetOpenSet(h)
    \/ SetOpenZAdd(h)
    \/ OutGetOpen(h)
    \/ OutWithoutIn(h)
    \/ SplitPatch(h)
    \/ SplitHistory(h)
    \/ SplitAnomaly(h)
    \/ SplitResolve(h)
    \/ Split2Create(h)
    \/ Split2Patch(h)
    \/ Split2History(h)
    \/ SameDayPatch(h)
    \/ SameDayHistory(h)
    \/ Return(h)

\* the steps taken only for a session opened in shadow mode and met in live
\* mode, and the step of a Personio call that throws
HandlerRareStep(h) ==
    \/ DoubleInDropped(h)
    \/ RecoverAnomaly(h)
    \/ RecoverResolve(h)
    \/ RecoverCreate(h)
    \/ RecoverPatch(h)
    \/ RecoverHistory(h)
    \/ ClientFails(h)

HandlerStep(h) ==
    \/ HandlerCoreStep(h)
    \/ HandlerRareStep(h)

SweepCoreStep ==
    \/ \E t \in NowPool : SweepStart(t)
    \/ SweepGet
    \/ SweepPatch
    \/ SweepHistory
    \/ SweepClearDel
    \/ SweepClearZRem
    \/ SweepReturn
    \/ SweepFinish

\* the patch of a due session throws
SweepFailStep ==
    \/ SweepPatchFails
    \/ SweepCatch

\* an index entry without a session arises only from interleaving
SweepOrphanStep ==
    \/ SweepOrphanDel
    \/ SweepOrphanZRem

Next ==
    \/ \E h \in H : HandlerCoreStep(h)
    \/ SweepCoreStep
    \/ SweepOrphanStep

NextSeq ==
    \/ HandlerStep("h1")
    \/ Restart
    \/ ExpireKeys

NextSweep ==
    \/ HandlerStep("h1")
    \/ SweepCoreStep
    \/ SweepFailStep
    \/ Restart

-----------------------------------------------------------------------------
(* clampAutoClose on its own: every start on a 30-second grid *)

FnStarts == {30 * k : k \in 0..(MaxFnDays * (DaySec \div 30) - 1)}

InitFn ==
    /\ InitStore
    /\ SHADOW_MODE = FALSE
    /\ conc = FALSE
    /\ pool = {}
    /\ fnIn \in FnStarts
    /\ fnOut = <<>>

\* autoCloseAtUtcMs: clampAutoClose(stampUtc)
ComputeAutoClose ==
    /\ fnOut = <<>>
    /\ fnOut' = <<clampAutoClose(fnIn)>>
    /\ UNCHANGED <<conc, pool, SHADOW_MODE, now, evt, punch, open, idx, history,
                   anomalies, remote, pc, loc, sw, prevSweep, passed, budget,
                   fnIn, empCache>>

NextFn == ComputeAutoClose

-----------------------------------------------------------------------------
(* timemoto.ts: extractStampUtc on its own, every body at every wall clock *)

\* data.timeInserted / data.timeLogged when one of them parses, else new Date()
extractStampUtc(ev, wallClock) ==
    IF ev.stamp # 0 THEN ev.stamp ELSE wallClock

StampBodies == SeqPool \cup ConcPool \cup SweepPool

StampClocks == {3600 * k : k \in 1..(MaxFnDays * 24)}

InitStamp ==
    /\ InitStore
    /\ SHADOW_MODE = FALSE
    /\ conc = FALSE
    /\ pool = {}
    /\ fnIn \in [body : StampBodies, wallClock : StampClocks]
    /\ fnOut = <<>>

\* const stampUtc = extractStampUtc(ev)
ExtractStamp ==
    /\ fnOut = <<>>
    /\ fnOut' = <<extractStampUtc(fnIn.body, fnIn.wallClock)>>
    /\ UNCHANGED <<conc, pool, SHADOW_MODE, now, evt, punch, open, idx, history,
                   anomalies, remote, pc, loc, sw, prevSweep, passed, budget,
                   fnIn, empCache>>

NextStamp == ExtractStamp

-----------------------------------------------------------------------------
(* session.ts: listDueAutoClose on its own, every small index *)

DueMembers == {A_X, B_X, C_X, <<"d", "@", "x">>}

DueScores == {clampAutoClose(T0800), clampAutoClose(T0830), clampAutoClose(T1630)}

DueIndexes ==
    UNION {[ms -> DueScores] : ms \in SUBSET DueMembers}

InitDue ==
    /\ InitStore
    /\ SHADOW_MODE = FALSE
    /\ conc = FALSE
    /\ pool = {}
    /\ fnIn \in [z : DueIndexes, nowUtcMs : NowPool \cup DueScores,
                 limit : 0..MaxDueLimit]
    /\ fnOut = <<>>

\* const dueEmails = await listDueAutoClose(redis, now, limit)
ListDue ==
    /\ fnOut = <<>>
    /\ fnOut' = <<listDueAutoClose(fnIn.z, fnIn.nowUtcMs, fnIn.limit)>>
    /\ UNCHANGED <<conc, pool, SHADOW_MODE, now, evt, punch, open, idx, history,
                   anomalies, remote, pc, loc, sw, prevSweep, passed, budget,
                   fnIn, empCache>>

NextDue == ListDue

-----------------------------------------------------------------------------
(* anomalies.ts: recordAnomaly and listAnomalies on their own *)

\* LRANGE list start stop, both ends included, counted from 0
LRange(list, start, stop) ==
    SubSeq(list, start + 1, IF stop + 1 < Len(list) THEN stop + 1 ELSE Len(list))

\* redis.lrange(KEY, 0, Math.max(0, limit - 1))
listAnomalies(list, limit) ==
    LRange(list, 0, IF limit - 1 > 0 THEN limit - 1 ELSE 0)

\* the list after n completed recordAnomaly calls; eventId numbers the calls
RecordedSoFar(n) ==
    [i \in 1..Min2(n, AnomalyCap) |-> Anomaly("DOUBLE_IN", A_X, n - i + 1)]

AnomalyKinds == {"DOUBLE_IN", "OUT_WITHOUT_IN", "EMAIL_MISSING"}

\* the admin route passes Math.min(200, Math.max(1, limit))
ListLimits == (1..MaxListLimit) \cup {200}

InitAnomalies ==
    /\ now = 0
    /\ evt = {}
    /\ punch = {}
    /\ open = EmptyMap
    /\ idx = EmptyMap
    /\ history = <<>>
    /\ remote = <<>>
    /\ pc = [h \in H |-> "idle"]
    /\ loc = [h \in H |-> IdleLoc]
    /\ sw = IdleSweep
    /\ prevSweep = NoSweep
    /\ passed = [e \in EventIds |-> 0]
    /\ budget = [deliveries |-> MaxDeliveries, sweeps |-> MaxSweeps,
                 restarts |-> MaxRestarts, fails |-> MaxFailures,
                 expiries |-> MaxExpiries]
    /\ empCache = {}
    /\ SHADOW_MODE = FALSE
    /\ conc = FALSE
    /\ pool = {}
    /\ fnIn \in [total : {0, 1, AnomalyCap - 1, AnomalyCap}, calls : {0}]
    /\ anomalies = RecordedSoFar(fnIn.total)
    /\ fnOut = <<>>

\* await recordAnomaly(redis, { type, email, eventId })
RecordAnomaly ==
    /\ fnIn.calls < MaxAppends
    /\ \E type \in AnomalyKinds :
           anomalies' = recordAnomaly(anomalies,
                                      Anomaly(type, A_X, fnIn.total + 1))
    /\ fnIn' = [total |-> fnIn.total + 1, calls |-> fnIn.calls + 1]
    /\ fnOut' = <<>>
    /\ UNCHANGED <<conc, pool, SHADOW_MODE, now, evt, punch, open, idx, history,
                   remote, pc, loc, sw, prevSweep, passed, budget, empCache>>

\* const items = await listAnomalies(redis, limit)
ListAnomalies ==
    /\ fnOut = <<>>
    /\ \E limit \in ListLimits :
           fnOut' = <<[limit |-> limit, items |-> listAnomalies(anomalies, limit)]>>
    /\ UNCHANGED <<conc, pool, SHADOW_MODE, now, evt, punch, open, idx, history,
                   anomalies, remote, pc, loc, sw, prevSweep, passed, budget,
                   fnIn, empCache>>

NextAnomalies ==
    \/ RecordAnomaly
    \/ ListAnomalies

-----------------------------------------------------------------------------
(* session.ts: pushHistory on its own, the global and the per-identity list *)

IdentityHistoryCap == 50

\* lpush(HISTORY_PREFIX + email, item); ltrim(key, 0, 49)
pushHistoryOf(list, item) == LPushTrim(list, item, IdentityHistoryCap)

HistoryCapOf(kind) == IF kind = "global" THEN HistoryCap ELSE IdentityHistoryCap

\* the list after n completed pushHistory calls; periodId numbers the calls
PushedSoFar(kind, n) ==
    [i \in 1..Min2(n, HistoryCapOf(kind)) |->
        HistoryItem(A_X, toBerlinISO(T0800), toBerlinISO(T1630), "OUT", n - i + 1)]

HistoryReasons == {"OUT", "AUTO_CLOSE", "DOUBLE_IN_CLOSE"}

InitHistory ==
    /\ now = 0
    /\ evt = {}
    /\ punch = {}
    /\ open = EmptyMap
    /\ idx = EmptyMap
    /\ anomalies = <<>>
    /\ remote = <<>>
    /\ pc = [h \in H |-> "idle"]
    /\ loc = [h \in H |-> IdleLoc]
    /\ sw = IdleSweep
    /\ prevSweep = NoSweep
    /\ passed = [e \in EventIds |-> 0]
    /\ budget = [deliveries |-> MaxDeliveries, sweeps |-> MaxSweeps,
                 restarts |-> MaxRestarts, fails |-> MaxFailures,
                 expiries |-> MaxExpiries]
    /\ empCache = {}
    /\ SHADOW_MODE = FALSE
    /\ conc = FALSE
    /\ pool = {}
    /\ \E kind \in {"global", "identity"} :
           fnIn \in [kind : {kind},
                     total : {0, 1, HistoryCapOf(kind) - 1, HistoryCapOf(kind)},
                     calls : {0}]
    /\ history = PushedSoFar(fnIn.kind, fnIn.total)
    /\ fnOut = <<>>

\* await pushHistory(redis, item)
PushHistory ==
    /\ fnIn.calls < MaxAppends
    /\ \E reason \in HistoryReasons :
         LET item == HistoryItem(A_X, toBerlinISO(T0800), toBerlinISO(T1630),
                                 reason, fnIn.total + 1)
         IN  history' = IF fnIn.kind = "global" THEN pushHistory(history, item)
                        ELSE pushHistoryOf(history, item)
    /\ fnIn' = [fnIn EXCEPT !.total = @ + 1, !.calls = @ + 1]
    /\ UNCHANGED <<conc, pool, SHADOW_MODE, now, evt, punch, open, idx,
                   anomalies, remote, pc, loc, sw, prevSweep, passed, budget,
                   fnOut, empCache>>

NextHistory == PushHistory

-----------------------------------------------------------------------------
(* Handlers of one identity and a sweep that is started again and again *)

LivePool ==
    { Body("e1", "In", A_X, T0800),
      Body("e2", "Out", A_X_raw, T1630),
      Body("e3", "In", A_X_raw, T0830) }

InitLive == InitCommon /\ conc = TRUE /\ pool = LivePool

\* setInterval(() => runAutoClose(env, redis), ...): one more pass
SweepTick(t) ==
    /\ sw.pc = "idle"
    /\ MayStart
    /\ t \in NowPool
    /\ t >= now
    /\ now' = t
    /\ sw' = [IdleSweep EXCEPT !.pc = "loop", !.now = t,
                               !.due = listDueAutoClose(idx, t, SweepLimit)]
    /\ prevSweep' = [prevSweep EXCEPT !.valid = @ /\ t = prevSweep.now]
    /\ UNCHANGED <<open, idx, history, anomalies, remote, budget>>
    /\ UNCHANGED <<conc, pool, SHADOW_MODE, evt, punch, pc, loc, passed, fnIn, fnOut, empCache>>

\* the steps an In or a same-day Out of the identity can take
LiveHandlerStep(h) ==
    \/ \E body \in pool : Deliver(h, body)
    \/ MarkEventOnce(h)
    \/ MarkPunchOnce(h)
    \/ InGetOpen(h)
    \/ DoubleInAnomaly(h)
    \/ DoubleInPatch(h)
    \/ DoubleInHistory(h)
    \/ ClearOpenDel(h)
    \/ ClearOpenZRem(h)
    \/ InResolve(h)
    \/ InCreate(h)
    \/ SetOpenSet(h)
    \/ SetOpenZAdd(h)
    \/ OutGetOpen(h)
    \/ OutWithoutIn(h)
    \/ SameDayPatch(h)
    \/ SameDayHistory(h)
    \/ Return(h)

LiveSweepStep ==
    \/ \E t \in NowPool : SweepTick(t)
    \/ SweepGet
    \/ SweepPatch
    \/ SweepHistory
    \/ SweepClearDel
    \/ SweepClearZRem
    \/ SweepOrphanDel
    \/ SweepOrphanZRem
    \/ SweepReturn
    \/ SweepFinish

NextLive ==
    \/ \E h \in H : LiveHandlerStep(h)
    \/ LiveSweepStep

-----------------------------------------------------------------------------
(* A backlog of due sessions under runAutoClose *)

\* the sessions of a backlog: identity k clocked In k seconds after 08:00
BacklogMember(k) == <<"u", k, "@", "x">>

BacklogSession(k, periodId) ==
    [email |-> BacklogMember(k), startUtcMs |-> T0800 + k,
     startBerlinISO |-> toBerlinISO(T0800 + k),
     autoCloseAtUtcMs |-> clampAutoClose(T0800 + k),
     personioPeriodId |-> periodId, openedEventId |-> "e1"]

\* how many sessions opened in shadow mode lie ahead of the live one
BacklogSizes == {0, 1, SweepLimit - 1, SweepLimit}

\* the store after n identities clocked In in shadow mode, the service was
\* restarted live and identity n + 1 clocked In: n sessions that carry the
\* shadow id, one that carries the id Personio handed out, all open
InitBacklog ==
    /\ \E n \in BacklogSizes :
          /\ fnIn = n
          /\ open = [m \in {BacklogMember(k) : k \in 1..(n + 1)} |->
                        BacklogSession(m[2], IF m[2] <= n THEN ShadowPeriod
                                             ELSE PeriodIds[1])]
          /\ idx = [m \in {BacklogMember(k) : k \in 1..(n + 1)} |->
                        clampAutoClose(T0800 + m[2])]
          /\ remote = createAttendanceOpenEnded(<<>>,
                          <<"emp">> \o BacklogMember(n + 1),
                          toBerlinISO(T0800 + n + 1))
    /\ now = 0
    /\ evt = {}
    /\ punch = {}
    /\ history = <<>>
    /\ anomalies = <<>>
    /\ pc = [h \in H |-> "idle"]
    /\ loc = [h \in H |-> IdleLoc]
    /\ sw = IdleSweep
    /\ prevSweep = NoSweep
    /\ passed = [e \in EventIds |-> 0]
    /\ budget = [deliveries |-> MaxDeliveries, sweeps |-> MaxSweeps,
                 restarts |-> MaxRestarts, fails |-> MaxFailures,
                 expiries |-> MaxExpiries]
    /\ empCache = {}
    /\ SHADOW_MODE = FALSE
    /\ fnOut = <<>>
    /\ conc = FALSE
    /\ pool = {}

\* the timer starts runAutoClose again and again; a pass runs to its end
BacklogStep ==
    \/ \E t \in NowPool : SweepTick(t)
    \/ SweepGet
    \/ SweepPatch
    \/ SweepCatch
    \/ SweepHistory
    \/ SweepClearDel
    \/ SweepClearZRem
    \/ SweepReturn
    \/ SweepFinish

NextBacklog == BacklogStep

-----------------------------------------------------------------------------
(* clearOpenSession on its own *)

MaxClears == 2

ClearMembers == {A_X, B_X, C_X}

\* a clear that refuses an identity it has nothing stored for
clearOpenSession_strict(o, z, email) ==
    IF email \in DOMAIN o \/ email \in DOMAIN z
    THEN [open |-> RedisDel(o, email), idx |-> ZRem(z, email), ok |-> TRUE]
    ELSE [open |-> o, idx |-> z, ok |-> FALSE]

\* DEL session:open:<email>, then ZREM session:autoclose <email>; neither
\* command fails for a key or member that is absent
clearOpenSession(o, z, email) ==
    [open |-> RedisDel(o, email), idx |-> ZRem(z, email), ok |-> TRUE]

\* any sessions and any index entries of three identities: the two are
\* written by separate commands and need not agree
InitClear ==
    /\ \E S \in SUBSET ClearMembers :
          open = [m \in S |->
                     [email |-> m, startUtcMs |-> T0800,
                      startBerlinISO |-> toBerlinISO(T0800),
                      autoCloseAtUtcMs |-> clampAutoClose(T0800),
                      personioPeriodId |-> ShadowPeriod,
                      openedEventId |-> "e1"]]
    /\ \E S \in SUBSET ClearMembers :
          idx = [m \in S |-> clampAutoClose(T0800)]
    /\ fnIn = [email |-> Null, prev |-> Null, calls |-> 0]
    /\ fnOut = <<>>
    /\ remote = <<>>
    /\ now = 0
    /\ evt = {}
    /\ punch = {}
    /\ history = <<>>
    /\ anomalies = <<>>
    /\ pc = [h \in H |-> "idle"]
    /\ loc = [h \in H |-> IdleLoc]
    /\ sw = IdleSweep
    /\ prevSweep = NoSweep
    /\ passed = [e \in EventIds |-> 0]
    /\ budget = [deliveries |-> MaxDeliveries, sweeps |-> MaxSweeps,
                 restarts |-> MaxRestarts, fails |-> MaxFailures,
                 expiries |-> MaxExpiries]
    /\ empCache = {}
    /\ SHADOW_MODE = TRUE
    /\ conc = FALSE
    /\ pool = {}

\* one call of clearOpenSession; fnIn keeps the identity of this call and of
\* the call before, fnOut tells whether the call returned normally
ClearOpenSession ==
    \E email \in ClearMembers :
        /\ fnIn.calls < MaxClears
        /\ LET r == clearOpenSession(open, idx, email)
           IN  /\ open' = r.open
               /\ idx' = r.idx
               /\ fnOut' = <<r.ok>>
        /\ fnIn' = [email |-> email, prev |-> fnIn.email,
                     calls |-> fnIn.calls + 1]
        /\ UNCHANGED <<conc, pool, SHADOW_MODE, now, evt, punch, history,
                       anomalies, remote, pc, loc, sw, prevSweep, passed,
                       budget, empCache>>

NextClear == ClearOpenSession

-----------------------------------------------------------------------------
(* processor.ts: handleOut for an identity without an open session *)

\* Math.min(ClockIn + 12h, berlinDayEndUtcMillis(ClockIn))
autoCloseUtcMs(startUtc) == Min2(startUtc + TwelveH, berlinDayEndUtcMillis(startUtc))

\* a window that gives every auto-closed interval 45 minutes after its end
lateOutApplies_grace(last, outMs) ==
    /\ last.endReason = "AUTO_CLOSE"
    /\ outMs > last.endUtcMs
    /\ outMs <= last.endUtcMs + 45 * 60

\* last.endReason === "AUTO_CLOSE" && outMs > last.endUtcMs && outMs <= maxEnd
lateOutApplies(last, outMs) ==
    /\ last.endReason = "AUTO_CLOSE"
    /\ outMs > last.endUtcMs
    /\ outMs <= last.startUtcMs + TwelveH

\* what handleOut does when loadOpen returned null: the end of the last
\* interval is replaced ("updating_autoclosed"), or OUT_WITHOUT_IN is recorded
handleOutNoOpen(last, outMs) ==
    IF last # <<>> /\ lateOutApplies(last[1], outMs)
    THEN "updating_autoclosed"
    ELSE "OUT_WITHOUT_IN"

LateStarts == {T0800, T1630, T2200, T235930}

LateOffsets ==
    {60, OneH, 6 * 3600, 8 * 3600, TwelveH - 1, TwelveH, TwelveH + 1,
     TwelveH + 45 * 60}

\* the last interval of an identity: none, one closed by an Out or a double
\* In one hour after its start, or one closed by the sweep at its deadline
LastSessions ==
    {<<>>}
    \cup {<<[startUtcMs |-> s, endUtcMs |-> s + OneH, endReason |-> r]>> :
              s \in LateStarts, r \in {"OUT", "DOUBLE_IN_CLOSE"}}
    \cup {<<[startUtcMs |-> s, endUtcMs |-> autoCloseUtcMs(s),
             endReason |-> "AUTO_CLOSE"]>> : s \in LateStarts}

InitLateOut ==
    /\ InitStore
    /\ SHADOW_MODE = FALSE
    /\ conc = FALSE
    /\ pool = {}
    /\ \E last \in LastSessions, s \in LateStarts, d \in LateOffsets :
          fnIn = [last |-> last, outMs |-> s + d]
    /\ fnOut = <<>>

HandleOutNoOpen ==
    /\ fnOut = <<>>
    /\ fnOut' = <<handleOutNoOpen(fnIn.last, fnIn.outMs)>>
    /\ UNCHANGED <<conc, pool, SHADOW_MODE, now, evt, punch, open, idx, history,
                   anomalies, remote, pc, loc, sw, prevSweep, passed, budget,
                   fnIn, empCache>>

NextLateOut == HandleOutNoOpen

-----------------------------------------------------------------------------
(* Specifications *)

\* handlers and the sweep interleave at every await
Spec == Init /\ [][Next]_vars

\* one handler invocation at a time, no sweep
SpecSeq == InitSeq /\ [][NextSeq]_vars

\* one handler invocation or one sweep at a time
SpecSweep == InitSweep /\ [][NextSweep]_vars

\* the deadline of one start instant
SpecFn == InitFn /\ [][NextFn]_vars

\* the instant extracted from one webhook body
SpecStamp == InitStamp /\ [][NextStamp]_vars

\* one query of the auto-close index
SpecDue == InitDue /\ [][NextDue]_vars

\* the anomaly list under recordAnomaly and listAnomalies
SpecAnomalies == InitAnomalies /\ [][NextAnomalies]_vars

\* a history list under pushHistory
SpecHistory == InitHistory /\ [][NextHistory]_vars

\* every started handler runs on, the sweep is started for ever, and no create
\* or patch call fails
SpecLive ==
    /\ InitLive
    /\ [][NextLive]_vars
    /\ \A h \in H : WF_vars(LiveHandlerStep(h))
    /\ WF_vars(LiveSweepStep)

\* sweeps for ever over a backlog, every pass run to its end
SpecBacklog == InitBacklog /\ [][NextBacklog]_vars /\ WF_vars(BacklogStep)

\* calls of clearOpenSession on any store
SpecClear == InitClear /\ [][NextClear]_vars

\* one Out for an identity without an open session
SpecLateOut == InitLateOut /\ [][NextLateOut]_vars

-----------------------------------------------------------------------------
(* Properties *)

\* the canonical form of an identity: surrounding blanks and case do not count
IdentityOf(raw) == toLowerCase(Trim(raw))

\* 23:59:00 local time on the local calendar day containing s
EndOfLocalDay(s) ==
    LET day == partsInTimeZone(s).day
        sod == 23 * 3600 + 59 * 60
    IN  CHOOSE t \in {DateUTC(day, sod) - 3600, DateUTC(day, sod) - 7200} :
            partsInTimeZone(t) = [day |-> day, sod |-> sod]

\* 00:00:00 local time on a local calendar day
LocalMidnight(day) ==
    CHOOSE t \in {DateUTC(day, 0) - 3600, DateUTC(day, 0) - 7200} :
        partsInTimeZone(t) = [day |-> day, sod |-> 0]

\* the anomalies a malformed event produces
MalformedTypes ==
    {"EVENT_ID_MISSING", "CLOCKING_TYPE_MISSING", "EMAIL_MISSING",
     "STAMP_TIME_MISSING"}

Malformed(body) == body.id = "" \/ ValidationFailure(body) # ""

\* C1: a delivery whose event id has already been claimed leaves the gate
\* straight to its return, and that step changes neither the open-session
\* records, the auto-close index, the history list, the anomaly list nor the
\* periods held by the attendance system.
C1_IdempotentReplay ==
    [][\A h \in H :
          (/\ pc[h] = "gate"
           /\ loc[h].eventId # ""
           /\ loc[h].eventId \in evt
           /\ pc'[h] # "gate")
          => (/\ pc'[h] = "done"
              /\ UNCHANGED <<open, idx, history, anomalies, remote>>)]_vars

\* C1 witness: a replay has returned at the gate after earlier deliveries
\* closed a session.
C1_Witness ==
    \E h \in H :
        /\ pc[h] = "done"
        /\ loc[h].branch = "duplicate_event_id"
        /\ history # <<>>

\* C2: whenever no handler and no sweep is mid-operation, the members of the
\* auto-close index are exactly the identities with an open-session record, and
\* each score is that record's autoCloseAtUtcMs.
C2_IndexConsistent ==
    AllIdle =>
        /\ DOMAIN idx = DOMAIN open
        /\ \A k \in DOMAIN open : idx[k] = open[k].autoCloseAtUtcMs

\* C3: however often a malformed event (no id, no direction, no identity, no
\* timestamp) is delivered, the anomaly list holds at most one anomaly for it.
C3_GateFirst ==
    \A b \in pool :
        Malformed(b) =>
            Cardinality({i \in 1..Len(anomalies) :
                            /\ anomalies[i].eventId = b.id
                            /\ anomalies[i].type \in MalformedTypes}) <= 1

\* C4: for every event id at most one invocation gets past the event gate, an
\* id is claimed exactly when one invocation got past with it, and of two
\* invocations carrying the same id that have left the gate one has stopped as
\* a duplicate.
C4_OneClaimant ==
    /\ \A e \in EventIds :
           /\ passed[e] <= 1
           /\ (e \in evt <=> passed[e] = 1)
    /\ \A g, h \in H :
           (/\ g # h
            /\ loc[g].eventId # ""
            /\ loc[g].eventId = loc[h].eventId
            /\ pc[g] \notin {"idle", "gate"}
            /\ pc[h] \notin {"idle", "gate"})
           => \/ (pc[g] = "done" /\ loc[g].branch = "duplicate_event_id")
              \/ (pc[h] = "done" /\ loc[h].branch = "duplicate_event_id")

\* C4 witness: two invocations running at once carried the same id; one went
\* on into the transition, the other stopped as a duplicate.
C4_Witness ==
    /\ loc["h1"].eventId # ""
    /\ loc["h1"].eventId = loc["h2"].eventId
    /\ pc["h1"] \notin {"idle", "gate", "done"}
    /\ pc["h2"] = "done"
    /\ loc["h2"].branch = "duplicate_event_id"

\* C5: no two open-session records belong to the same identity, and every
\* record is stored under the identity it names.
C5_OneOpenSessionPerIdentity ==
    /\ \A k1, k2 \in DOMAIN open :
           IdentityOf(k1) = IdentityOf(k2) => k1 = k2
    /\ \A k \in DOMAIN open : open[k].email = k

\* C5 witness: an In spelled "a@x" and an In spelled " A@X" were both
\* processed, and the identity has an open session.
C5_Witness ==
    /\ passed["e1"] = 1
    /\ passed["e3"] = 1
    /\ A_X \in DOMAIN open
    /\ AllIdle

\* C6: the deadline d computed for a start s satisfies s < d, d <= s + 12h and
\* d <= 23:59:00 local time of the local day containing s.
C6_DeadlineBounds ==
    fnOut # <<>> =>
        LET s == fnIn
            d == fnOut[1]
        IN  /\ s < d
            /\ d <= s + TwelveH
            /\ d <= EndOfLocalDay(s)

C8_CrossMidnightSplit ==
    \A h \in H :
        (pc[h] = "done" /\ loc[h].branch = "split") =>
            LET o == loc[h].sess[1]
                firstEnd == Min2(o.autoCloseAtUtcMs, EndOfLocalDay(o.startUtcMs))
                outDay == partsInTimeZone(loc[h].stampUtc).day
            IN  /\ Len(history) = Len(loc[h].pre.history) + 2
                /\ history[2].reason = "OUT_NEXT_DAY_SPLIT_DAY1"
                /\ InstantOf(history[2].start) = o.startUtcMs
                /\ InstantOf(history[2].end) = firstEnd
                /\ history[1].reason = "OUT_NEXT_DAY_SPLIT_DAY2"
                /\ InstantOf(history[1].start) = LocalMidnight(outDay)
                /\ InstantOf(history[1].end) = loc[h].stampUtc
                /\ loc[h].email \notin DOMAIN open
                /\ Len(anomalies) = Len(loc[h].pre.anomalies) + 1
                /\ anomalies[1].type = "OUT_NEXT_DAY_SPLIT"

C10_SweepIdempotence ==
    /\ \A i, j \in 1..Len(history) :
           (/\ i < j
            /\ history[i].reason = "AUTO_CLOSE"
            /\ history[j].reason = "AUTO_CLOSE"
            /\ history[i].email = history[j].email)
           => history[i].start # history[j].start
    /\ \A i \in 1..Len(history) :
           (history[i].reason = "AUTO_CLOSE"
            /\ PatchAccepted(remote, history[i].periodId))
           => remote[PeriodIndex(history[i].periodId)].patches <= 1
    /\ (sw.pc = "done" /\ prevSweep.valid) =>
           /\ sw.closedIds \cap prevSweep.closedIds = {}
           /\ \A i \in 1..Len(sw.due) : sw.due[i] \notin prevSweep.closedIds

\* C10 witness: the first of two back-to-back sweeps closed a session, the
\* second has run through with closed = 0.
C10_Witness ==
    /\ sw.pc = "done"
    /\ prevSweep.valid
    /\ prevSweep.closed >= 1
    /\ sw.closed = 0

\* the newest history entry of an identity with a given reason (0: none)
NewestEntry(email, reason) ==
    LET hits == {j \in 1..Len(history) :
                    history[j].email = email /\ history[j].reason = reason}
    IN  IF hits = {} THEN 0
        ELSE CHOOSE j \in hits : \A k \in hits : j <= k

NewestOf(list, email) ==
    LET hits == {j \in 1..Len(list) : list[j].email = email}
    IN  IF hits = {} THEN 0
        ELSE CHOOSE j \in hits : \A k \in hits : j <= k

\* an Out at stamp corrects the auto-closed entry: strictly after its end and
\* at or before its start + 12h, or 45 minutes after an end at start + 12h
LateOutApplies(entry, stamp) ==
    /\ entry.reason = "AUTO_CLOSE"
    /\ InstantOf(entry.end) < stamp
    /\ \/ stamp <= InstantOf(entry.start) + TwelveH
       \/ /\ InstantOf(entry.end) = InstantOf(entry.start) + TwelveH
          /\ stamp = InstantOf(entry.end) + 45 * 60

\* C12: after an Out for an identity without an open session whose newest
\* history entry was auto-closed and which falls into the correction window,
\* no anomaly has been added, that history entry has reason
\* OUT_LATE_AFTER_AUTOCLOSE and the Out instant as its end, and in live mode
\* the remote period ends at the Out instant.
C12_LateOutAfterAutoClose ==
    \A h \in H :
        (/\ pc[h] = "done"
         /\ loc[h].branch = "out_without_in"
         /\ NewestOf(loc[h].pre.history, loc[h].email) # 0
         /\ LateOutApplies(
                loc[h].pre.history[NewestOf(loc[h].pre.history, loc[h].email)],
                loc[h].stampUtc))
        => LET pre == loc[h].pre
               j == NewestOf(pre.history, loc[h].email)
           IN  /\ anomalies = pre.anomalies
               /\ history = [pre.history EXCEPT
                                ![j].reason = "OUT_LATE_AFTER_AUTOCLOSE",
                                ![j].end = loc[h].stampBerlinISO]
               /\ (~SHADOW_MODE /\ PatchAccepted(remote, pre.history[j].periodId))
                      => remote[PeriodIndex(pre.history[j].periodId)].end
                             = <<loc[h].stampBerlinISO>>

\* the anomaly kinds of a failed validation, the missing person mapping
\* included
ValidationKinds ==
    {"CLOCKING_TYPE_MISSING", "EMAIL_MISSING", "STAMP_TIME_MISSING",
     "PERSONIO_EMPLOYEE_NOT_FOUND"}

\* handler h has returned after recording a validation anomaly for its event
FailedValidation(h) ==
    /\ pc[h] = "done"
    /\ Len(anomalies) > Len(loc[h].pre.anomalies)
    /\ anomalies[1].type \in ValidationKinds
    /\ anomalies[1].eventId = loc[h].eventId

\* C13: when handleAttendance returns after a validation failure (direction,
\* identity, timestamp or person mapping), the open-session records, the
\* auto-close index, the history list and the periods held by the attendance
\* system are what they were when the event arrived, also when the event is
\* an In for an identity that has an open session.
C13_ValidationNoSideEffects ==
    \A h \in H :
        ~conc /\ FailedValidation(h) =>
            /\ open = loc[h].pre.open
            /\ idx = loc[h].pre.idx
            /\ history = loc[h].pre.history
            /\ remote = loc[h].pre.remote

\* C14: an event that carries no usable timestamp yields no instant: the
\* extraction does not put another instant in its place, so the event can
\* only end in STAMP_TIME_MISSING.
C14_NoSubstitutedInstant ==
    fnOut # <<>> /\ fnIn.body.stamp = 0 => fnOut[1] = 0

\* the anomaly kind a handled ending records
AnomalyOfBranch(branch) ==
    CASE branch = "EMAIL_MISSING" -> "EMAIL_MISSING"
      [] branch = "double_in" -> "DOUBLE_IN"
      [] branch = "out_without_in" -> "OUT_WITHOUT_IN"
      [] branch = "split" -> "OUT_NEXT_DAY_SPLIT"
      [] branch = "employee_not_found" -> "PERSONIO_EMPLOYEE_NOT_FOUND"
      [] OTHER -> ""

RecordedFor(list, type, eventId) ==
    \E i \in 1..Len(list) : list[i].type = type /\ list[i].eventId = eventId

C16_FailureChangesNoState ==
    \A h \in H :
        ~conc /\ pc[h] = "failed" =>
            /\ loc[h].eventId \in evt
            /\ open = loc[h].pre.open
            /\ idx = loc[h].pre.idx
            /\ history = loc[h].pre.history

\* C17: an Out for an identity without an open session records exactly one
\* OUT_WITHOUT_IN anomaly for the event and nothing else: the open-session
\* records, the auto-close index, the history list and the periods held by the
\* attendance system stay as they were.
C17_OutWithoutIn ==
    \A h \in H :
        (~conc /\ pc[h] = "done" /\ loc[h].clockingType = "Out"
               /\ loc[h].branch \notin {"duplicate_event_id", "duplicate_punch"}
               /\ loc[h].email # Null /\ loc[h].stampUtc # 0
               /\ loc[h].email \notin DOMAIN loc[h].pre.open) =>
            /\ loc[h].branch = "out_without_in"
            /\ anomalies = <<Anomaly("OUT_WITHOUT_IN", loc[h].email, loc[h].eventId)>>
                               \o loc[h].pre.anomalies
            /\ open = loc[h].pre.open
            /\ idx = loc[h].pre.idx
            /\ history = loc[h].pre.history
            /\ remote = loc[h].pre.remote

C17_Witness ==
    \E h \in H :
        /\ ~conc /\ pc[h] = "done" /\ loc[h].branch = "out_without_in"
        /\ Len(loc[h].pre.history) > 0
        /\ anomalies[1].type = "OUT_WITHOUT_IN"

\* C18: the sweep closes a session it has reloaded only if that session's own
\* deadline has passed at the sweep's instant, also when an Out and a new In
\* of the identity were processed between the index read and the reload.
C18_SweepClosesOnlyDue ==
    sw.pc \in {"patch", "history", "clear_del", "clear_zrem"} =>
        /\ sw.sess # <<>>
        /\ sw.sess[1].autoCloseAtUtcMs <= sw.now

\* C19: the due query returns at most limit identities, each once and each
\* with an indexed deadline <= now, in ascending deadline order, and an
\* identity that is due but left out has no earlier deadline than a returned
\* one and is left out only because limit identities were returned.
C19_DueBefore ==
    fnOut # <<>> =>
        LET z == fnIn.z
            res == fnOut[1]
            got == {res[i] : i \in 1..Len(res)}
            due == {m \in DOMAIN z : z[m] <= fnIn.nowUtcMs}
        IN  /\ Len(res) <= fnIn.limit
            /\ Cardinality(got) = Len(res)
            /\ got \subseteq due
            /\ \A i, j \in 1..Len(res) : i < j => z[res[i]] <= z[res[j]]
            /\ \A m \in due \ got :
                   /\ Len(res) = fnIn.limit
                   /\ \A g \in got : z[g] <= z[m]

C19_Witness ==
    /\ fnOut # <<>>
    /\ Len(fnOut[1]) = 2
    /\ fnIn.z[fnOut[1][1]] < fnIn.z[fnOut[1][2]]
    /\ \E m \in DOMAIN fnIn.z :
           /\ fnIn.z[m] <= fnIn.nowUtcMs
           /\ \A i \in 1..2 : fnOut[1][i] # m
    /\ \E m \in DOMAIN fnIn.z : fnIn.z[m] > fnIn.nowUtcMs

\* C20: after any number of completed recordAnomaly calls the anomaly list
\* holds the most recent min(calls, 500) entries, newest first, and
\* listAnomalies(limit) returns the first min(limit, length) of them in that
\* order.
C20_AnomalyLogBound ==
    /\ Len(anomalies) <= AnomalyCap
    /\ Len(anomalies) = Min2(fnIn.total, AnomalyCap)
    /\ \A i \in 1..Len(anomalies) : anomalies[i].eventId = fnIn.total - i + 1
    /\ fnOut # <<>> =>
           /\ Len(fnOut[1].items) = Min2(fnOut[1].limit, Len(anomalies))
           /\ \A i \in 1..Len(fnOut[1].items) : fnOut[1].items[i] = anomalies[i]

C20_Witness ==
    /\ fnIn.total > AnomalyCap
    /\ Len(anomalies) = AnomalyCap
    /\ anomalies[AnomalyCap].eventId = fnIn.total - AnomalyCap + 1
    /\ fnOut # <<>>
    /\ Len(fnOut[1].items) = 200

\* C21: after any number of completed pushHistory calls the history list
\* holds the most recent min(calls, cap) entries, newest first (cap 2000 for
\* the global list, 50 for the list of one identity): only the oldest entries
\* are dropped.
C21_HistoryBound ==
    /\ Len(history) <= HistoryCapOf(fnIn.kind)
    /\ Len(history) = Min2(fnIn.total, HistoryCapOf(fnIn.kind))
    /\ \A i \in 1..Len(history) : history[i].periodId = fnIn.total - i + 1

C21_Witness ==
    /\ fnIn.kind = "global"
    /\ fnIn.total = HistoryCap + 2
    /\ Len(history) = HistoryCap
    /\ history[1].periodId = HistoryCap + 2
    /\ history[HistoryCap].periodId = 3

\* C22: every close has its end at or after its start: each history entry
\* and each period of the attendance system that has an end.
C22_EndNotBeforeStart ==
    /\ \A j \in 1..Len(history) :
           InstantOf(history[j].end) >= InstantOf(history[j].start)
    /\ \A n \in 1..Len(remote) :
           remote[n].end # <<>> =>
               InstantOf(remote[n].end[1]) >= InstantOf(remote[n].start)

\* the local calendar day of the instant an ISO string denotes
LocalDayOf(iso) == partsInTimeZone(InstantOf(iso)).day

\* C23: every period of the attendance system that has an end starts and ends
\* on the same local calendar day.
C23_NoCrossMidnightPeriod ==
    \A n \in 1..Len(remote) :
        remote[n].end # <<>> =>
            LocalDayOf(remote[n].end[1]) = LocalDayOf(remote[n].start)

SessionCloseReasons ==
    {"OUT", "DOUBLE_IN_CLOSE", "OUT_NEXT_DAY_SPLIT_DAY1", "AUTO_CLOSE",
     "RECOVER_FROM_SHADOW"}

\* C24: every recorded close of a session ends at or before the session's
\* deadline min(start + 12h, end of the start's local day), hence at most 12h
\* after the start.
C24_EndWithinDeadline ==
    \A j \in 1..Len(history) :
        history[j].reason \in SessionCloseReasons =>
            /\ InstantOf(history[j].end)
                   <= clampAutoClose(InstantOf(history[j].start))
            /\ InstantOf(history[j].end) - InstantOf(history[j].start) <= TwelveH

\* C25: patchAttendanceEnd is never called with the shadow sentinel: the sweep
\* does not reach its patch call with a session that carries it, and a
\* handler step at a patch call of such a session neither changes the periods
\* of the attendance system nor fails.
C25_ShadowNeverPatched ==
    [][/\ sw.pc = "patch" => ~isShadowPeriodId(sw.sess[1].personioPeriodId)
       /\ \A h \in H :
              (/\ pc[h] \in {"dbl_patch", "split_patch", "sd_patch"}
               /\ isShadowPeriodId(loc[h].sess[1].personioPeriodId)
               /\ pc'[h] # pc[h])
                  => remote' = remote /\ pc'[h] # "failed"]_vars

CountOf(list, type, eventId) ==
    Cardinality({i \in 1..Len(list) :
                     list[i].type = type /\ list[i].eventId = eventId})

\* handler h has returned from an In that found a session of its identity,
\* resolved the person and met no failing call
DoubleInResolved(h) ==
    /\ ~conc
    /\ pc[h] = "done"
    /\ loc[h].branch = "double_in"
    /\ ~RecordedFor(anomalies, "PERSONIO_EMPLOYEE_NOT_FOUND", loc[h].eventId)

\* C26: an In at T1 for an identity with an open session records exactly one
\* DOUBLE_IN anomaly, puts exactly one DOUBLE_IN_CLOSE entry for the prior
\* session on the history list, and leaves the identity with one open session
\* that starts at T1, was opened by this event and is indexed at its deadline.
C26_DoubleInSequence ==
    \A h \in H :
        DoubleInResolved(h) =>
            LET prior == loc[h].pre.open[loc[h].email]
            IN  /\ CountOf(anomalies, "DOUBLE_IN", loc[h].eventId)
                       = CountOf(loc[h].pre.anomalies, "DOUBLE_IN", loc[h].eventId) + 1
                /\ Len(history) = Len(loc[h].pre.history) + 1
                /\ SubSeq(history, 2, Len(history)) = loc[h].pre.history
                /\ history[1].reason = "DOUBLE_IN_CLOSE"
                /\ history[1].email = loc[h].email
                /\ history[1].start = prior.startBerlinISO
                /\ history[1].periodId = prior.personioPeriodId
                /\ loc[h].email \in DOMAIN open
                /\ open[loc[h].email].startUtcMs = loc[h].stampUtc
                /\ open[loc[h].email].openedEventId = loc[h].eventId
                /\ open[loc[h].email].autoCloseAtUtcMs = clampAutoClose(loc[h].stampUtc)
                /\ loc[h].email \in DOMAIN idx
                /\ idx[loc[h].email] = clampAutoClose(loc[h].stampUtc)

C26_Witness ==
    \E h \in H :
        /\ DoubleInResolved(h)
        /\ ~SHADOW_MODE
        /\ loc[h].pre.open[loc[h].email].openedEventId # loc[h].eventId
        /\ ~isShadowPeriodId(loc[h].pre.open[loc[h].email].personioPeriodId)

\* handler h works on an In whose identity had no open session on arrival
InOnNoSession(h) ==
    /\ ~conc
    /\ loc[h].clockingType = "In"
    /\ loc[h].branch \in {"", "in_opened"}
    /\ loc[h].email # Null
    /\ loc[h].email \notin DOMAIN loc[h].pre.open

\* C27: a valid In at s for an identity without an open session creates the
\* period starting at s (live mode) and then stores the session with start s,
\* deadline min(s + 12h, end of the local day of s), the period id returned
\* and the event id; before the create has returned, and after a create that
\* threw, the identity has neither an open session nor an index entry.
C27_InOnNoSession ==
    \A h \in H :
        InOnNoSession(h) =>
            LET e == loc[h].email
                s == loc[h].stampUtc
                d == Min2(s + TwelveH, EndOfLocalDay(s))
            IN  /\ pc[h] \in {"in_get", "in_resolve", "in_create", "failed"} =>
                       /\ e \notin DOMAIN open
                       /\ e \notin DOMAIN idx
                       /\ remote = loc[h].pre.remote
                /\ pc[h] \in {"set_set", "set_zadd", "done"} /\ ~SHADOW_MODE =>
                       /\ Len(remote) = Len(loc[h].pre.remote) + 1
                       /\ remote[Len(remote)].start = toBerlinISO(s)
                       /\ remote[Len(remote)].end = <<>>
                       /\ remote[Len(remote)].person = getEmployeeIdByEmail(e)
                /\ pc[h] = "done" /\ loc[h].branch = "in_opened" =>
                       /\ e \in DOMAIN open
                       /\ open[e].startUtcMs = s
                       /\ open[e].autoCloseAtUtcMs = d
                       /\ open[e].openedEventId = loc[h].eventId
                       /\ open[e].personioPeriodId =
                              IF SHADOW_MODE THEN ShadowPeriod
                              ELSE PeriodIds[Len(loc[h].pre.remote) + 1]
                       /\ e \in DOMAIN idx /\ idx[e] = d
                       /\ history = loc[h].pre.history

C27_Witness ==
    \E h \in H :
        /\ InOnNoSession(h)
        /\ pc[h] = "done" /\ loc[h].branch = "in_opened"
        /\ ~SHADOW_MODE
        /\ Len(loc[h].pre.remote) > 0

\* C28: when a pass of runAutoClose has returned, every identity it listed
\* was handled: it is closed (counted, cleared, with an AUTO_CLOSE history
\* entry), or it had no session, or its patch failed, and then its session
\* and index entry are still there, an AUTO_CLOSE_FAILED anomaly names it and
\* no AUTO_CLOSE entry exists for that session; the count returned is the
\* number of identities closed.
C28_SweepFailureIsolation ==
    sw.pc = "done" =>
        /\ sw.closed = Cardinality(sw.closedIds)
        /\ sw.closedIds \subseteq {sw.due[k] : k \in 1..Len(sw.due)}
        /\ \A k \in 1..Len(sw.due) :
               LET e == sw.due[k]
               IN  \/ /\ e \in sw.closedIds
                      /\ e \notin DOMAIN open /\ e \notin DOMAIN idx
                      /\ NewestEntry(e, "AUTO_CLOSE") # 0
                   \/ /\ e \notin sw.closedIds
                      /\ e \notin DOMAIN open /\ e \notin DOMAIN idx
                   \/ /\ e \notin sw.closedIds
                      /\ e \in DOMAIN open /\ e \in DOMAIN idx
                      /\ \E i \in 1..Len(anomalies) :
                             /\ anomalies[i].type = "AUTO_CLOSE_FAILED"
                             /\ anomalies[i].email = e
                      /\ \A j \in 1..Len(history) :
                             (history[j].reason = "AUTO_CLOSE" /\ history[j].email = e)
                                 => history[j].start # open[e].startBerlinISO

C28_Witness ==
    /\ sw.pc = "done"
    /\ Len(sw.due) = 2
    /\ sw.closed = 1
    /\ sw.due[1] \notin sw.closedIds
    /\ sw.due[1] \in DOMAIN open
    /\ sw.due[2] \in sw.closedIds
    /\ anomalies # <<>> /\ anomalies[1].type = "AUTO_CLOSE_FAILED"

\* C29: with the sweep started again and again and no failing call, an open
\* session whose deadline has passed at the sweep's clock is eventually gone
\* from the open sessions, whatever interleaving of handlers created it.
C29_OverdueEventuallyClosed ==
    \A e \in {normalizeEmail(b.user) : b \in LivePool} :
        (e \in DOMAIN open /\ open[e].autoCloseAtUtcMs <= now)
            ~> (e \notin DOMAIN open)

\* C30: when more sessions are due than one pass takes, repeated sweeps reach
\* every due session: the due session that Personio accepts a patch for is
\* closed by some later pass, however many sessions whose close keeps failing
\* lie ahead of it in the index
C30_DueEventuallyReached ==
    (/\ BacklogMember(fnIn + 1) \in DOMAIN open
     /\ open[BacklogMember(fnIn + 1)].autoCloseAtUtcMs <= now)
    ~> (BacklogMember(fnIn + 1) \notin DOMAIN open)

\* the stage of the close a program counter stands for
CloseStage(label) ==
    IF label \in {"patch", "sd_patch"} THEN "patch"
    ELSE IF label \in {"history", "sd_history"} THEN "history"
    ELSE IF label = "clear_del" THEN "del"
    ELSE IF label = "clear_zrem" THEN "zrem"
    ELSE IF label \in {"catch", "failed"} THEN "failed"
    ELSE "end"

\* one step of a close of sess (of member, at endISO, for reason) from stage
\* at to stage to: the patch before the history entry, the history entry
\* before the removal, and no removal after a failed patch
ClosePrimitive(at, to, member, sess, endISO, reason) ==
    LET id == sess.personioPeriodId
        item == HistoryItem(member, sess.startBerlinISO, endISO, reason, id)
        patched(rem) ==
            PatchAccepted(rem, id) /\ rem[PeriodIndex(id)].end = <<endISO>>
    IN  /\ (at = "patch" /\ to = "history") =>
               /\ patched(remote')
               /\ UNCHANGED <<history, open, idx>>
        /\ (at = "patch" /\ to = "failed") =>
               UNCHANGED <<remote, history, open, idx>>
        /\ (at = "history" /\ to = "del") =>
               /\ ~SHADOW_MODE => patched(remote)
               /\ history' = <<item>> \o history
               /\ UNCHANGED <<remote, open, idx>>
        /\ (at = "del" /\ to = "zrem") =>
               /\ history[1] = item
               /\ member \in DOMAIN open
               /\ member \notin DOMAIN open'
               /\ UNCHANGED <<remote, history, idx>>
        /\ (at = "zrem" /\ to = "end") =>
               /\ history[1] = item
               /\ member \notin DOMAIN open
               /\ member \notin DOMAIN idx'
               /\ UNCHANGED <<remote, history, open>>
        /\ at = "failed" =>
               /\ member \in DOMAIN open' /\ open'[member] = sess
               /\ member \in DOMAIN idx'
               /\ UNCHANGED <<remote, history, open, idx>>

\* C31: runAutoClose closes a session by the steps of the same-day Out, in the
\* same order: patch the remote end, append the history entry (AUTO_CLOSE
\* there, OUT here), remove the session, remove the index entry; after a
\* failed patch neither of them removes the session
C31_SameClosePrimitive ==
    [][/\ sw.sess # <<>> =>
              ClosePrimitive(CloseStage(sw.pc), CloseStage(sw'.pc),
                             sw.due[sw.i], sw.sess[1],
                             toBerlinISO(sw.sess[1].autoCloseAtUtcMs),
                             "AUTO_CLOSE")
       /\ \A h \in H :
              loc[h].branch = "same_day_out" =>
                  ClosePrimitive(CloseStage(pc[h]), CloseStage(pc'[h]),
                                 loc[h].email, loc[h].sess[1],
                                 loc[h].stampBerlinISO, "OUT")]_vars

\* C31 witness: in live mode a sweep has closed a session, and a same-day Out
\* has closed a session with a patch before
C31_Witness ==
    /\ ~SHADOW_MODE
    /\ sw.pc = "done"
    /\ sw.closed >= 1
    /\ \E j \in 1..Len(history) :
           history[j].reason = "OUT" /\ PatchAccepted(remote, history[j].periodId)

\* C32: a call of clearOpenSession returns normally; for an identity with no
\* open session and no index entry it changes nothing; and a call that follows
\* a call for the same identity changes nothing
C32_ClearOpenIdempotent ==
    [][fnIn'.calls = fnIn.calls + 1 =>
           /\ fnOut' = <<TRUE>>
           /\ (fnIn'.email \notin DOMAIN open /\ fnIn'.email \notin DOMAIN idx)
                  => UNCHANGED <<open, idx>>
           /\ (fnIn.calls > 0 /\ fnIn'.prev = fnIn'.email)
                  => UNCHANGED <<open, idx>>]_vars

\* C32 witness: clearOpenSession was called twice for one identity, and other
\* identities are still stored
C32_Witness ==
    /\ fnIn.calls = 2
    /\ fnIn.prev = fnIn.email
    /\ fnOut = <<TRUE>>
    /\ fnIn.email \notin DOMAIN open
    /\ fnIn.email \notin DOMAIN idx
    /\ open # EmptyMap
    /\ idx # EmptyMap

\* C33: whenever no handler and no sweep is running, every remote period that
\* was created and whose end was never patched is the period of the open
\* session of the identity it was created for
C33_NoOrphanedPeriod ==
    AllIdle =>
        \A n \in 1..Len(remote) :
            remote[n].end = <<>> =>
                \E e \in DOMAIN open :
                    /\ open[e].personioPeriodId = PeriodIds[n]
                    /\ getEmployeeIdByEmail(e) = remote[n].person

\* C34: a session is closed once: no remote period has received more than one
\* end patch, and no two history entries stand for the same session (same
\* identity, start and period id)
C34_ClosedExactlyOnce ==
    /\ \A n \in 1..Len(remote) : remote[n].patches <= 1
    /\ \A i, j \in 1..Len(history) :
           i < j =>
               ~(/\ history[i].email = history[j].email
                 /\ history[i].start = history[j].start
                 /\ history[i].periodId = history[j].periodId)

\* C35: a step that removes an identity's open session finds a history entry
\* for that session already appended: same identity, same start, and the
\* session's period id (or, for a session that carried the shadow id, the id
\* of the period that replaced it)
C35_HistoryPrecedesRemoval ==
    [][\A e \in DOMAIN open :
           e \notin DOMAIN open' =>
               \E j \in 1..Len(history) :
                   /\ history[j].email = e
                   /\ history[j].start = open[e].startBerlinISO
                   /\ \/ history[j].periodId = open[e].personioPeriodId
                      \/ isShadowPeriodId(open[e].personioPeriodId)]_vars

\* C36: an Out that found an open session and returns normally, through any
\* branch, leaves its identity without a session and without an index entry;
\* and no step of an Out stores or changes a session
C36_OutEndsInNoSession ==
    [][\A h \in H :
           loc[h].clockingType = "Out" =>
               /\ \A e \in DOMAIN open' :
                      e \in DOMAIN open /\ open'[e] = open[e]
               /\ \A e \in DOMAIN idx' :
                      e \in DOMAIN idx /\ idx'[e] = idx[e]
               /\ (pc[h] # "done" /\ pc'[h] = "done" /\ loc[h].sess # <<>>) =>
                      /\ loc[h].email \notin DOMAIN open'
                      /\ loc[h].email \notin DOMAIN idx']_vars

\* C36 witness: in live mode an Out on a later day than the In has returned
\* after the split
C36_Witness ==
    \E h \in H :
        /\ pc[h] = "done"
        /\ loc[h].clockingType = "Out"
        /\ loc[h].branch = "split"
        /\ loc[h].sess # <<>>
        /\ ~SHADOW_MODE
        /\ loc[h].email \notin DOMAIN open

\* an event with another id and the punch of h's event (same identity, same
\* direction, same instant) has claimed its id before
PunchSeenBefore(h) ==
    \E b \in pool :
        /\ b.id # loc[h].eventId
        /\ passed[b.id] >= 1
        /\ extractEmailFromEvent(b) = loc[h].email
        /\ getClockingType(b) = loc[h].clockingType
        /\ extractStampUtcMillis(b) = loc[h].stampUtc

\* C37: an event that passes validation and repeats the punch of an event
\* processed before under another id, within the seven days the punch mark
\* lives, is dropped: when its handler ends, open sessions, index, history,
\* remote periods and anomalies are what they were when it was delivered
C37_PunchDeduplication ==
    \A h \in H :
        (/\ pc[h] \in {"done", "failed"}
         /\ loc[h].clockingType # ""
         /\ budget.expiries = MaxExpiries
         /\ PunchSeenBefore(h))
        => /\ pc[h] = "done"
           /\ loc[h].branch = "duplicate_punch"
           /\ open = loc[h].pre.open
           /\ idx = loc[h].pre.idx
           /\ history = loc[h].pre.history
           /\ remote = loc[h].pre.remote
           /\ anomalies = loc[h].pre.anomalies

\* C37 witness: an In that repeats the punch of the In that opened the
\* identity's session has ended, in live mode
C37_Witness ==
    \E h \in H :
        /\ pc[h] = "done"
        /\ loc[h].clockingType = "In"
        /\ budget.expiries = MaxExpiries
        /\ PunchSeenBefore(h)
        /\ ~SHADOW_MODE
        /\ loc[h].email \in DOMAIN open
        /\ open[loc[h].email].startUtcMs = loc[h].stampUtc
        /\ open[loc[h].email].openedEventId # loc[h].eventId

\* C38: the late-Out correction fires only for an auto-closed interval whose
\* end lies strictly before its start + 12h, that is, whose deadline was the
\* end of the local day; an Out after an interval auto-closed at start + 12h
\* records OUT_WITHOUT_IN, whatever its instant
C38_LateOutWindow ==
    fnOut # <<>> =>
        /\ fnOut = <<"updating_autoclosed">> =>
               LET last == fnIn.last[1]
               IN  /\ last.endReason = "AUTO_CLOSE"
                   /\ last.endUtcMs < last.startUtcMs + TwelveH
                   /\ last.endUtcMs = berlinDayEndUtcMillis(last.startUtcMs)
        /\ (/\ fnIn.last # <<>>
            /\ fnIn.last[1].endReason = "AUTO_CLOSE"
            /\ fnIn.last[1].endUtcMs = fnIn.last[1].startUtcMs + TwelveH)
               => fnOut = <<"OUT_WITHOUT_IN">>

\* C38 witness: an Out 45 minutes after an interval auto-closed at
\* start + 12h was answered with OUT_WITHOUT_IN
C38_Witness ==
    /\ fnOut = <<"OUT_WITHOUT_IN">>
    /\ fnIn.last # <<>>
    /\ fnIn.last[1].endReason = "AUTO_CLOSE"
    /\ fnIn.last[1].endUtcMs = fnIn.last[1].startUtcMs + TwelveH
    /\ fnIn.outMs = fnIn.last[1].endUtcMs + 45 * 60

\* C39: while SHADOW_MODE is on no step creates or patches a remote period,
\* every session stored carries the shadow period id, and the history gets
\* the entries it gets in live mode: after the next-day split of a known
\* employee's session the newest entries are day 2 (midnight to the Out) and
\* day 1
C39_ShadowNoRemoteWrites ==
    /\ [][SHADOW_MODE =>
              /\ remote' = remote
              /\ \A e \in DOMAIN open' :
                     (e \notin DOMAIN open \/ open'[e] # open[e]) =>
                         open'[e].personioPeriodId = ShadowPeriod]_vars
    /\ [](\A h \in H :
              (/\ SHADOW_MODE
               /\ pc[h] = "done"
               /\ loc[h].branch = "split"
               /\ loc[h].employeeId # Null)
              => /\ Len(history) >= 2
                 /\ history[1].reason = "OUT_NEXT_DAY_SPLIT_DAY2"
                 /\ history[1].start
                        = midnightBerlin(DayOf(loc[h].stampBerlinISO))
                 /\ history[1].end = loc[h].stampBerlinISO
                 /\ history[2].reason = "OUT_NEXT_DAY_SPLIT_DAY1")

\* C40: no handler reaches the patch step of the next-day split or of the
\* same-day Out in live mode with a session that carries a shadow period id,
\* and no SHADOW_PERIOD_CANNOT_PATCH anomaly is ever recorded
C40_UnreachableFallback ==
    /\ \A h \in H :
           (pc[h] \in {"split_patch", "sd_patch"} /\ ~SHADOW_MODE) =>
               ~isShadowPeriodId(loc[h].sess[1].personioPeriodId)
    /\ \A i \in 1..Len(anomalies) :
           anomalies[i].type # "SHADOW_PERIOD_CANNOT_PATCH"

\* C40 witness: in live mode an Out for a session that carries the shadow
\* period id has gone through the recovery branch and returned
C40_Witness ==
    \E h \in H :
        /\ pc[h] = "done"
        /\ ~SHADOW_MODE
        /\ loc[h].clockingType = "Out"
        /\ loc[h].branch = "recover"
        /\ isShadowPeriodId(loc[h].sess[1].personioPeriodId)
        /\ \E i \in 1..Len(anomalies) :
               /\ anomalies[i].type = "SHADOW_PERIOD_RECOVER"
               /\ anomalies[i].eventId = loc[h].eventId

====
